---- MODULE Spec2Model ----
(***************************************************************************)
(* Layout graph editor of MBM-Flex_GUI: rooms, apertures, link mode,       *)
(* drag/resize with throttled rendering, connection renderer, save/load.   *)
(*                                                                         *)
(* Lengths are kept in quarter pixels (Px(n) is n pixels), so that the     *)
(* halvings of createApertureBetween and getCenter are exact and parseInt  *)
(* is a real truncation.                                                   *)
(***************************************************************************)
EXTENDS Integers, Sequences, FiniteSets, TLC

VARIABLES
    nextId,                     \* number of ids handed out so far by generateId
    roomHeap,                   \* every Room object ever constructed, by id
    rooms,                      \* State.rooms: keys in insertion order
    apertures,                  \* State.apertures: entries in insertion order
    selected,                   \* State.selected: data-id of the element, NoId if null
    linkMode,                   \* State.linkMode
    linkSelection,              \* State.linkSelection: Room references (ids into roomHeap)
    linkingDOMElements,         \* State.linkingDOMElements: element data-ids
    transportPathMode,          \* State.transportPathMode
    resultsViewMode,            \* State.resultsViewMode
    canvas,                     \* children of State.ui.canvas, in document order
    connectionLayer,            \* children of State.ui.connectionLayer
    highlightedConnectionLayer, \* children of State.ui.highlightedConnectionLayer
    liveLines,                  \* number of line nodes the last update() created
    pendingPaths,               \* outstanding deducePaths requests
    tiles,                      \* path tiles of State.ui.tranportPathList
    downloads,                  \* files the user can pick: those the last save() wrote
    notice,                     \* last alert shown ("" if none)
    now,                        \* performance.now(), in milliseconds
    last,                       \* throttle: time of the last let-through call
    dragging,                   \* DragResizeManager.dragging (data-id or NoId)
    resizing,                   \* DragResizeManager.resizing (data-id or NoId)
    offsetX,                    \* DragResizeManager.offsetX
    offsetY,                    \* DragResizeManager.offsetY
    renderTimes,                \* times of the renderer runs made through throttledRender
    gestures,                   \* gestures started so far
    loads,                      \* calls of load() suspended at an await, oldest first
    listeners,                  \* mousemove listeners of the document, as registered
    reachable,                  \* backend services that answer the fetches sent to them
    validations,                \* calls of check_room() suspended at their await, oldest first
    jsonError,                  \* State.ui.jsonError: style.display and innerHTML
    resultsLoads,               \* calls of ResultsViewInterface.load() not yet answered
    validTimes,                 \* ResultsViewManager.validTimes ("null" until a load answers)
    rangeQueries,               \* calls of update_min_max() suspended at their await
    valueQueries,               \* calls of updateNodeColors() suspended at their await
    calls,                      \* requests sent so far to the validator and the results service
    answered,                   \* the call answered last (0 before the first answer)
    min,                        \* ResultsViewManager.min (Null if null)
    max,                        \* ResultsViewManager.max (Null if null)
    speciesInput,               \* State.results.speciesInput.value
    timeSlider,                 \* State.results.timeSlider.value
    resultsView,                \* State.ui.resultsView.style.display
    saved                       \* the graph as it was when save() last completed

vars == << nextId, roomHeap, rooms, apertures, selected, linkMode, linkSelection,
           linkingDOMElements, transportPathMode, resultsViewMode, canvas,
           connectionLayer, highlightedConnectionLayer, liveLines, pendingPaths,
           tiles, downloads, notice, now, last, dragging, resizing, offsetX,
           offsetY, renderTimes, gestures, listeners, loads, saved, reachable,
           validations, jsonError, resultsLoads, validTimes, rangeQueries,
           valueQueries, min, max, speciesInput, timeSlider, calls, answered,
           resultsView >>

graphVars == << nextId, roomHeap, rooms, apertures >>
linkVars  == << linkMode, linkSelection, linkingDOMElements >>
modeVars  == << transportPathMode, resultsViewMode, pendingPaths, tiles >>
layerVars == << connectionLayer, highlightedConnectionLayer, liveLines >>
ioVars    == << downloads, notice, saved, loads >>
dragVars  == << dragging, resizing, offsetX, offsetY, gestures, listeners >>
timeVars  == << now, last, renderTimes >>
editVars  == << validations, jsonError >>
viewVars  == << resultsLoads, validTimes, rangeQueries, valueQueries, min, max,
                speciesInput, timeSlider >>
netVars   == << reachable, answered >>
svcVars   == << netVars, calls, editVars, viewVars, resultsView >>

---------------------------------------------------------------------------
(* Bounds of the model *)

MaxId == 3
MaxLoadId == 6
MaxRooms == 2
MaxApertures == 2
MaxTiles == 1
MaxMarked == 2
MaxTime == 32
MaxGestures == 2
MaxLoads == 2
MaxRequests == 4

---------------------------------------------------------------------------
(* Values *)

NoId == "null"

\* the value undefined, as a property key and in a list
Undefined == "undefined"

\* null where a number is expected
Null == 0 - 1

\* the n-th identifier crypto.randomUUID() hands out: never one handed out before
GenerateId(n) == "id" \o ToString(n)

Px(n) == 4 * n

\* faulty variant: the length is not halved
HalfDropped(x) == x

Half(x) == x \div 2

Sides == {"Front", "Back", "Left", "Right"}

DefaultRoomText == "{\"default\": true}"

\* texts a user types into the JSON editor
EditorTexts == {"{\"rooms\": {}}", ""}

\* labels a user types into a room label
TypedLabels == {"Hall", ""}

\* texts typed into the editor while an aperture is selected
AreaTexts == {"{\"area\": 2}", "{\"area\": -1}", "{\"area\": 0}", "{}", "oops"}

NoUI == [none |-> TRUE]

\* an array where a UI box is expected: truthy, with neither position nor size
ListUI(list) == [items |-> list]

\* ui.position and ui.size are defined
HasBox(ui) == "position" \in DOMAIN ui /\ "size" \in DOMAIN ui

DefaultRoomUI ==
    [position |-> [left |-> Px(50), top |-> Px(50)],
     size |-> [width |-> Px(120), height |-> Px(90)]]

DefaultArea == 1

Range(s) == {s[i] : i \in 1..Len(s)}

---------------------------------------------------------------------------
(* Room: constructor *)

Room(id, label, data, ui) ==
    [id |-> id,
     label |-> IF label = "" THEN "Room" ELSE label,
     data |-> IF data = "" THEN DefaultRoomText ELSE data,
     ui |-> ui]

(* Aperture: constructor *)

Aperture(id, area, aprooms, ui, grounded) ==
    [id |-> id, area |-> area, grounded |-> grounded, rooms |-> aprooms,
     ui |-> IF ui = NoUI THEN [position |-> [left |-> 0, top |-> 0]] ELSE ui]

---------------------------------------------------------------------------
(* RoomManager *)

\* faulty variant: default labels are numbered from one
CreateRoomNumberedFromOne(id, initialData, registered) ==
    Room(id,
         IF initialData.label = "" THEN "Room " \o ToString(Len(registered) + 1)
                                   ELSE initialData.label,
         IF initialData.data = "" THEN DefaultRoomText ELSE initialData.data,
         IF initialData.ui = NoUI THEN DefaultRoomUI ELSE initialData.ui)

\* the Room that createRoom(initialData) constructs under the fresh id
CreateRoom(id, initialData, registered) ==
    Room(id,
         IF initialData.label = "" THEN "Room " \o ToString(Len(registered))
                                   ELSE initialData.label,
         IF initialData.data = "" THEN DefaultRoomText ELSE initialData.data,
         IF initialData.ui = NoUI THEN DefaultRoomUI ELSE initialData.ui)

NoOverrides == [label |-> "", data |-> "", ui |-> NoUI]

\* faulty variant: apertures that referenced the room are deleted with it
StripRoomPruning(aps, id) ==
    SelectSeq(aps, LAMBDA ap : id \notin Range(ap.rooms))

\* State.apertures after the forEach of removeRoom(id)
StripRoom(aps, id) ==
    [i \in 1..Len(aps) |->
        [aps[i] EXCEPT !.rooms = SelectSeq(aps[i].rooms, LAMBDA rid : rid # id)]]

\* State.rooms after rooms.delete(id)
DeleteKey(keys, id) == SelectSeq(keys, LAMBDA k : k # id)

---------------------------------------------------------------------------
(* ApertureManager *)

\* faulty variant: the two rooms are stored in the opposite order
CreateApertureBetweenSwapped(id, roomA, roomB, area) ==
    LET l == Half(roomA.ui.position.left + Half(roomA.ui.size.width) +
                  roomB.ui.position.left + Half(roomB.ui.size.width))
        t == Half(roomA.ui.position.top + Half(roomA.ui.size.height) +
                  roomB.ui.position.top + Half(roomB.ui.size.height))
    IN  Aperture(id, area, <<roomB.id, roomA.id>>,
                 [position |-> [left |-> l, top |-> t]], FALSE)

CreateApertureBetween(id, roomA, roomB, area) ==
    LET l == Half(roomA.ui.position.left + Half(roomA.ui.size.width) +
                  roomB.ui.position.left + Half(roomB.ui.size.width))
        t == Half(roomA.ui.position.top + Half(roomA.ui.size.height) +
                  roomB.ui.position.top + Half(roomB.ui.size.height))
    IN  Aperture(id, area, <<roomA.id, roomB.id>>,
                 [position |-> [left |-> l, top |-> t]], FALSE)

ApertureGraphicRadius == Px(12)

\* faulty variant: the aperture is not marked as grounded
CreateGroundedApertureUnmarked(id, roomA, side, area) ==
    Aperture(id, area, <<roomA.id, side>>,
             [position |-> [left |-> roomA.ui.position.left,
                            top |-> roomA.ui.position.top]], FALSE)

CreateGroundedAperture(id, roomA, side, area) ==
    LET top_delta ==
            IF side = "Front" THEN roomA.ui.size.height + ApertureGraphicRadius
            ELSE IF side = "Back" THEN 0 - ApertureGraphicRadius
            ELSE Half(roomA.ui.size.height)
        left_delta ==
            IF side = "Left" THEN 0 - ApertureGraphicRadius
            ELSE IF side = "Right" THEN roomA.ui.size.width + ApertureGraphicRadius
            ELSE Half(roomA.ui.size.width)
        l == roomA.ui.position.left + left_delta
        t == roomA.ui.position.top + top_delta
    IN  Aperture(id, area, <<roomA.id, side>>,
                 [position |-> [left |-> l, top |-> t]], TRUE)

\* State.apertures.set(id, ap): a new key goes to the end
SetAperture(aps, key, ap) == Append(aps, ap @@ [key |-> key])

\* State.apertures.delete(id)
DeleteAperture(aps, key) == SelectSeq(aps, LAMBDA e : e.key # key)

---------------------------------------------------------------------------
(* DOM helpers *)

\* document.querySelector('[data-id="<id>"]') over the canvas: position of the first match, 0 if none
FindEl(cv, id) ==
    IF \E i \in 1..Len(cv) : cv[i].id = id
    THEN CHOOSE i \in 1..Len(cv) : cv[i].id = id /\ \A j \in 1..(i - 1) : cv[j].id # id
    ELSE 0

HasEl(cv, id) == FindEl(cv, id) # 0

\* el.classList.add(c) / remove(c) on the element with that data-id, if it is still attached
AddClass(cv, id, c) ==
    [i \in 1..Len(cv) |->
        IF cv[i].id = id THEN [cv[i] EXCEPT !.classes = @ \cup {c}] ELSE cv[i]]

RemoveClass(cv, id, c) ==
    [i \in 1..Len(cv) |->
        IF cv[i].id = id THEN [cv[i] EXCEPT !.classes = @ \ {c}] ELSE cv[i]]

RECURSIVE RemoveClassAll(_, _, _)
RemoveClassAll(cv, ids, c) ==
    IF ids = <<>> THEN cv
    ELSE RemoveClassAll(RemoveClass(cv, Head(ids), c), Tail(ids), c)

ApertureGraphicDiameter == Px(24)

\* the element createDomRoom(room) appends to the canvas
DomRoom(room) ==
    [id |-> room.id, kind |-> "room",
     left |-> room.ui.position.left, top |-> room.ui.position.top,
     width |-> room.ui.size.width, height |-> room.ui.size.height,
     classes |-> {}, backgroundColor |-> ""]

\* the element createDomAperture(aperture) appends to the canvas
DomAperture(ap) ==
    [id |-> ap.id, kind |-> "aperture",
     left |-> ap.ui.position.left, top |-> ap.ui.position.top,
     width |-> ApertureGraphicDiameter, height |-> ApertureGraphicDiameter,
     classes |-> {}]

\* getCenter(el, canvas); the canvas sits at the origin of the viewport
GetCenter(el) == [x |-> el.left + Half(el.width), y |-> el.top + Half(el.height)]

---------------------------------------------------------------------------
(* SelectionManager *)

\* faulty variant: the marker stays on the element
ClearSelectionKeepingMarker(cv, sel) == cv

\* canvas after clearSelection()
ClearSelection(cv, sel) == IF sel # NoId THEN RemoveClass(cv, sel, "selected") ELSE cv

\* canvas after selectElement(el)
SelectElement(cv, sel, id) == AddClass(ClearSelection(cv, sel), id, "selected")

---------------------------------------------------------------------------
(* ConnectionRenderer *)

\* the lines update() draws for one aperture; n numbers the line nodes of one update()
LinesOf(ap, regs, cv, n) ==
    LET apEl == FindEl(cv, ap.id)
        ok == IF apEl = 0 THEN <<>>
              ELSE SelectSeq(ap.rooms,
                             LAMBDA rid : rid \in Range(regs) /\ HasEl(cv, rid))
    IN  [k \in 1..Len(ok) |->
            [n |-> n + k,
             apertureId |-> ap.id, roomId |-> ok[k],
             x1 |-> GetCenter(cv[apEl]).x, y1 |-> GetCenter(cv[apEl]).y,
             x2 |-> GetCenter(cv[FindEl(cv, ok[k])]).x,
             y2 |-> GetCenter(cv[FindEl(cv, ok[k])]).y,
             classes |-> {"connection-line"}]]

RECURSIVE DrawLines(_, _, _, _)
DrawLines(aps, regs, cv, n) ==
    IF aps = <<>> THEN <<>>
    ELSE LET ls == LinesOf(Head(aps), regs, cv, n)
         IN  ls \o DrawLines(Tail(aps), regs, cv, n + Len(ls))

\* update(): both layers are emptied, the new lines go to the normal layer
Update(aps, regs, cv) ==
    LET ls == DrawLines(aps, regs, cv, 0)
    IN  [svg |-> ls, highlightSvg |-> << >>, live |-> Len(ls)]

\* an append that leaves the line in the layer it was in
AppendChildCopying(layers, line, target) ==
    IF target = "highlightSvg"
    THEN [svg |-> layers.svg, highlightSvg |-> Append(layers.highlightSvg, line)]
    ELSE [svg |-> Append(layers.svg, line), highlightSvg |-> layers.highlightSvg]

\* parent.appendChild(line): a node has one parent, so the line leaves the layer it was in
AppendChild(layers, line, target) ==
    LET out(s) == SelectSeq(s, LAMBDA x : x.n # line.n)
    IN  IF target = "highlightSvg"
        THEN [svg |-> out(layers.svg), highlightSvg |-> Append(out(layers.highlightSvg), line)]
        ELSE [svg |-> Append(out(layers.svg), line), highlightSvg |-> out(layers.highlightSvg)]

\* line.classList.toggle(c, mode)
ToggleClass(line, c, mode) ==
    [line EXCEPT !.classes = IF mode THEN @ \cup {c} ELSE @ \ {c}]

\* the forEach of highlightFor / transportModeFor over the snapshot querySelectorAll returned
RECURSIVE MoveLines(_, _, _, _, _)
MoveLines(layers, snapshot, ids, mode, c) ==
    IF snapshot = <<>> THEN layers
    ELSE LET line == Head(snapshot)
         IN  IF line.apertureId \in ids
             THEN MoveLines(AppendChild(layers, ToggleClass(line, c, mode),
                                        IF mode THEN "highlightSvg" ELSE "svg"),
                            Tail(snapshot), ids, mode, c)
             ELSE MoveLines(layers, Tail(snapshot), ids, mode, c)

\* document.querySelectorAll(".connection-line"): the normal layer precedes the highlight layer
ConnectionLines(layers) == layers.svg \o layers.highlightSvg

HighlightFor(layers, id, mode) ==
    MoveLines(layers, ConnectionLines(layers), {id}, mode, "highlight")

TransportModeFor(layers, path, mode) ==
    MoveLines(layers, ConnectionLines(layers), path, mode, "transport")

Layers == [svg |-> connectionLayer, highlightSvg |-> highlightedConnectionLayer]

---------------------------------------------------------------------------
(* LinkModeManager *)

\* String(room), the property key the in operator looks up
PropertyKey(room) == "[object Object]"

\* key in array: the indices of the array and its length property
InArray(key, arr) == key \in {ToString(i - 1) : i \in 1..Len(arr)} \cup {"length"}

\* faulty variant: the selection is left as it was
KeptLinkSelection == linkSelection

\* State.linkSelection = [] of enableLinkMode() and disableLinkMode()
EmptyLinkSelection == << >>

\* faulty variant: the mode is not looked at
LinkRoomReturnsOnRepeat(room) == InArray(PropertyKey(room), linkSelection)

\* the two early returns of linkRoom(room, el)
LinkRoomReturns(room) == ~linkMode \/ InArray(PropertyKey(room), linkSelection)

\* canvas after disableLinkMode()
DisableLinkModeCanvas(cv, marked) == RemoveClassAll(cv, marked, "linking")

---------------------------------------------------------------------------
(* State after construction: main.js wires the managers and renders once *)

Init ==
    /\ nextId = 0
    /\ roomHeap = << >>
    /\ rooms = << >>
    /\ apertures = << >>
    /\ selected = NoId
    /\ linkMode = FALSE
    /\ linkSelection = << >>
    /\ linkingDOMElements = << >>
    /\ transportPathMode = FALSE
    /\ resultsViewMode = FALSE
    /\ canvas = << >>
    /\ connectionLayer = << >>
    /\ highlightedConnectionLayer = << >>
    /\ liveLines = 0
    /\ pendingPaths = 0
    /\ tiles = << >>
    /\ downloads = << >>
    /\ notice = ""
    /\ now = 0
    /\ last = 0
    /\ dragging = NoId
    /\ resizing = NoId
    /\ offsetX = 0
    /\ offsetY = 0
    /\ renderTimes = << >>
    /\ gestures = 0
    /\ listeners = << >>
    /\ loads = << >>
    /\ reachable = {"transport"}
    /\ validations = << >>
    /\ jsonError = [display |-> "none", innerHTML |-> ""]
    /\ resultsLoads = << >>
    /\ calls = 0
    /\ answered = 0
    /\ validTimes = "null"
    /\ rangeQueries = << >>
    /\ valueQueries = << >>
    /\ min = Null
    /\ max = Null
    /\ speciesInput = ""
    /\ timeSlider = 0
    /\ resultsView = "none"
    /\ saved = [ok |-> FALSE]

\* no mouse button is held: clicks on toolbar and elements can happen
NoGesture == dragging = NoId /\ resizing = NoId

\* TransportPathManager.end()
TransportEnd ==
    IF transportPathMode
    THEN transportPathMode' = FALSE /\ tiles' = << >>
    ELSE UNCHANGED << transportPathMode, tiles >>

\* ResultsViewManager.resetNodeColors()
ResetNodeColors(cv) ==
    [i \in 1..Len(cv) |-> IF cv[i].kind = "room"
                          THEN [cv[i] EXCEPT !.backgroundColor = ""]
                          ELSE cv[i]]

\* ResultsViewManager.end(): the mode and the results panel
ResultsEnd ==
    IF resultsViewMode
    THEN resultsViewMode' = FALSE /\ resultsView' = "none"
    ELSE UNCHANGED << resultsViewMode, resultsView >>

\* ResultsViewManager.end(): the room elements
ResultsEndCanvas(cv) == IF resultsViewMode THEN ResetNodeColors(cv) ELSE cv

\* JsonEditor.check_room() up to its await: the request leaves with the text of
\* the editor; a fetch that cannot reach the validator rejects and the call ends
CheckRoom(txt) ==
    IF "jsonvalidators" \in reachable
    THEN /\ calls < MaxRequests
         /\ calls' = calls + 1
         /\ validations' = Append(validations, [call |-> calls + 1, txt |-> txt])
    ELSE UNCHANGED << calls, validations >>

\* JsonEditor.check_aperture(): truthy is whether the parsed text has a truthy area
CheckAperture(truthy) ==
    IF truthy
    THEN [jsonError EXCEPT !.display = "none"]
    ELSE [display |-> "block", innerHTML |-> "Area of aperture not defined"]

---------------------------------------------------------------------------
(* Toolbar handlers of main.js *)

\* #add-room
AddRoomClick ==
    /\ NoGesture
    /\ nextId < MaxId
    /\ Len(rooms) < MaxRooms
    /\ LET id == GenerateId(nextId + 1)
           room == CreateRoom(id, NoOverrides, rooms)
       IN  /\ nextId' = nextId + 1
           /\ roomHeap' = roomHeap @@ (id :> room)
           /\ rooms' = Append(rooms, id)
           /\ canvas' = Append(ResultsEndCanvas(ClearSelection(canvas, selected)),
                               DomRoom(room))
    /\ selected' = NoId
    /\ TransportEnd
    /\ ResultsEnd
    /\ UNCHANGED << apertures, linkVars, layerVars, pendingPaths, ioVars, netVars, calls,
                    editVars, viewVars, dragVars, timeVars >>

\* #add-aperture: enableLinkMode()
AddApertureClick ==
    /\ NoGesture
    /\ canvas' = ResultsEndCanvas(ClearSelection(canvas, selected))
    /\ selected' = NoId
    /\ TransportEnd
    /\ ResultsEnd
    /\ linkMode' = TRUE
    /\ linkSelection' = EmptyLinkSelection
    /\ UNCHANGED << graphVars, linkingDOMElements, layerVars, pendingPaths, ioVars, netVars,
                    calls, editVars, viewVars, dragVars, timeVars >>

---------------------------------------------------------------------------
(* Element handlers of main.js *)

\* LinkModeManager.linkRoom(room, el) after the element was selected; cv is the canvas
\* as selectElement left it
LinkRoom(room, cv) ==
    IF LinkRoomReturns(room)
    THEN /\ canvas' = cv
         /\ UNCHANGED << graphVars, linkVars, layerVars >>
    ELSE LET sel == Append(linkSelection, room.id)
             marked == Append(linkingDOMElements, room.id)
             cv1 == AddClass(cv, room.id, "linking")
         IN  IF Len(sel) = 2
             THEN LET id == GenerateId(nextId + 1)
                      ap == CreateApertureBetween(id, roomHeap[sel[1]], roomHeap[sel[2]],
                                                  DefaultArea)
                      aps == SetAperture(apertures, id, ap)
                      cv2 == Append(cv1, DomAperture(ap))
                      up == Update(aps, rooms, cv2)
                  IN  /\ nextId' = nextId + 1
                      /\ apertures' = aps
                      /\ connectionLayer' = up.svg
                      /\ highlightedConnectionLayer' = up.highlightSvg
                      /\ liveLines' = up.live
                      /\ linkMode' = FALSE
                      /\ linkSelection' = EmptyLinkSelection
                      /\ linkingDOMElements' = << >>
                      /\ canvas' = DisableLinkModeCanvas(cv2, marked)
                      /\ UNCHANGED << roomHeap, rooms >>
             ELSE /\ linkSelection' = sel
                  /\ linkingDOMElements' = marked
                  /\ canvas' = cv1
                  /\ UNCHANGED << graphVars, linkMode, layerVars >>

\* click on a room element (not on its resize handle)
RoomClick(i) ==
    /\ NoGesture
    /\ canvas[i].kind = "room"
    /\ linkMode /\ Len(linkSelection) = 1 => nextId < MaxId /\ Len(apertures) < MaxApertures
    /\ linkMode => Len(linkingDOMElements) < MaxMarked
    /\ selected' = canvas[i].id
    /\ CheckRoom(roomHeap[canvas[i].id].data)
    /\ LinkRoom(roomHeap[canvas[i].id], SelectElement(canvas, selected, canvas[i].id))
    /\ UNCHANGED << modeVars, ioVars, netVars, jsonError, viewVars, resultsView, dragVars,
                    timeVars >>

\* click on an aperture element
ApertureClick(i) ==
    /\ NoGesture
    /\ canvas[i].kind = "aperture"
    /\ selected' = canvas[i].id
    /\ canvas' = SelectElement(canvas, selected, canvas[i].id)
    /\ jsonError' = CheckAperture(\E k \in 1..Len(apertures) :
                                    apertures[k].key = canvas[i].id /\ apertures[k].area # 0)
    /\ UNCHANGED << graphVars, linkVars, modeVars, layerVars, ioVars, netVars, calls,
                    validations, viewVars, resultsView, dragVars, timeVars >>

\* click on one of the four side banners: LinkModeManager.linkClickBanner(side)
BannerClick(side) ==
    /\ NoGesture
    /\ linkMode /\ Len(linkSelection) = 1 => nextId < MaxId /\ Len(apertures) < MaxApertures
    /\ IF ~linkMode \/ Len(linkSelection) # 1
       THEN UNCHANGED << graphVars, linkVars, layerVars, canvas >>
       ELSE LET id == GenerateId(nextId + 1)
                ap == CreateGroundedAperture(id, roomHeap[linkSelection[1]], side, DefaultArea)
                aps == SetAperture(apertures, id, ap)
                cv == Append(canvas, DomAperture(ap))
                up == Update(aps, rooms, cv)
            IN  /\ nextId' = nextId + 1
                /\ apertures' = aps
                /\ connectionLayer' = up.svg
                /\ highlightedConnectionLayer' = up.highlightSvg
                /\ liveLines' = up.live
                /\ linkMode' = FALSE
                /\ linkSelection' = EmptyLinkSelection
                /\ linkingDOMElements' = << >>
                /\ canvas' = DisableLinkModeCanvas(cv, linkingDOMElements)
                /\ UNCHANGED << roomHeap, rooms >>
    /\ UNCHANGED << selected, modeVars, ioVars, svcVars, dragVars, timeVars >>

\* click on the empty canvas
CanvasClick ==
    /\ NoGesture
    /\ selected' = NoId
    /\ canvas' = DisableLinkModeCanvas(ClearSelection(canvas, selected), linkingDOMElements)
    /\ linkMode' = FALSE
    /\ linkSelection' = EmptyLinkSelection
    /\ linkingDOMElements' = << >>
    /\ TransportEnd
    /\ UNCHANGED << graphVars, resultsViewMode, pendingPaths, layerVars, ioVars, svcVars,
                    dragVars, timeVars >>

\* keydown Escape
EscapeKey ==
    /\ selected' = NoId
    /\ canvas' = ResultsEndCanvas(DisableLinkModeCanvas(ClearSelection(canvas, selected),
                                                        linkingDOMElements))
    /\ linkMode' = FALSE
    /\ linkSelection' = EmptyLinkSelection
    /\ linkingDOMElements' = << >>
    /\ TransportEnd
    /\ ResultsEnd
    /\ UNCHANGED << graphVars, pendingPaths, layerVars, ioVars, netVars, calls, editVars,
                    viewVars, dragVars, timeVars >>

\* blur of a room's label: makeLabelEditable stores the typed text
LabelBlur(i, text) ==
    /\ NoGesture
    /\ canvas[i].kind = "room"
    /\ roomHeap' = [roomHeap EXCEPT ![canvas[i].id].label = text]
    /\ UNCHANGED << nextId, rooms, apertures, selected, linkVars, modeVars, canvas,
                    layerVars, ioVars, svcVars, dragVars, timeVars >>

\* mouseenter / mouseleave on an aperture element: renderer.highlightFor(el, mode)
ApertureHover(i, mode) ==
    /\ canvas[i].kind = "aperture"
    /\ LET ls == HighlightFor(Layers, canvas[i].id, mode)
       IN  /\ connectionLayer' = ls.svg
           /\ highlightedConnectionLayer' = ls.highlightSvg
    /\ UNCHANGED << graphVars, selected, linkVars, modeVars, canvas, liveLines, ioVars, svcVars,
                    dragVars, timeVars >>

---------------------------------------------------------------------------
(* Manager operations no handler of main.js calls *)

\* RoomManager.removeRoom(id)
RemoveRoom(id) ==
    /\ apertures' = StripRoom(apertures, id)
    /\ rooms' = DeleteKey(rooms, id)
    /\ UNCHANGED << nextId, roomHeap, selected, linkVars, modeVars, canvas, layerVars,
                    ioVars, svcVars, dragVars, timeVars >>

\* ApertureManager.removeAperture(id)
RemoveAperture(id) ==
    /\ apertures' = DeleteAperture(apertures, id)
    /\ UNCHANGED << nextId, roomHeap, rooms, selected, linkVars, modeVars, canvas,
                    layerVars, ioVars, svcVars, dragVars, timeVars >>

---------------------------------------------------------------------------
(* JsonEditor *)

\* safeParseJSON(txt, null)?.area is truthy
HasTruthyArea(txt) == txt \in {"{\"area\": 2}", "{\"area\": -1}"}

\* Number(obj.area) for such a text
NumberOfArea(txt) == IF txt = "{\"area\": 2}" THEN 2 ELSE 0 - 1

HasKey(aps, key) == \E i \in 1..Len(aps) : aps[i].key = key

\* input event of the editor textarea: onChange() with the typed text
EditorInput(txt) ==
    /\ NoGesture
    /\ selected # NoId
    /\ IF selected \in Range(rooms)
       THEN /\ CheckRoom(txt)
            /\ roomHeap' = [roomHeap EXCEPT ![selected].data = txt]
            /\ UNCHANGED << apertures, jsonError >>
       ELSE IF HasKey(apertures, selected)
       THEN /\ jsonError' = CheckAperture(HasTruthyArea(txt))
            /\ apertures' = [i \in 1..Len(apertures) |->
                                IF apertures[i].key = selected /\ HasTruthyArea(txt)
                                THEN [apertures[i] EXCEPT !.area = NumberOfArea(txt)]
                                ELSE apertures[i]]
            /\ UNCHANGED << roomHeap, validations, calls >>
       ELSE UNCHANGED << roomHeap, apertures, editVars, calls >>
    /\ UNCHANGED << nextId, rooms, selected, linkVars, modeVars, canvas, layerVars,
                    ioVars, netVars, viewVars, resultsView, dragVars, timeVars >>

---------------------------------------------------------------------------
(* LoadSaveManager: save *)

\* a JavaScript object with string keys: its entries in insertion order
ObjHas(obj, k) == \E i \in 1..Len(obj) : obj[i].key = k

ObjGet(obj, k) == obj[CHOOSE i \in 1..Len(obj) : obj[i].key = k].value

ObjPut(obj, k, v) ==
    IF ObjHas(obj, k)
    THEN [i \in 1..Len(obj) |-> IF obj[i].key = k THEN [key |-> k, value |-> v] ELSE obj[i]]
    ELSE Append(obj, [key |-> k, value |-> v])

RoomFileName(label) == "room_" \o label \o ".json"

MasterFileName == "layout_master.json"

\* the room loop of save(): the files downloaded, roomFiles and the room part of ui_data
RECURSIVE SaveRooms(_, _, _)
SaveRooms(keys, heap, acc) ==
    IF keys = << >> THEN acc
    ELSE LET room == heap[Head(keys)]
             filename == RoomFileName(room.label)
         IN  SaveRooms(Tail(keys), heap,
                 [files |-> Append(acc.files, [name |-> filename, content |-> [text |-> room.data]]),
                  roomFiles |-> ObjPut(acc.roomFiles, room.label, filename),
                  ui_data |-> ObjPut(acc.ui_data, room.label, room.ui)])

\* getRoomLabel(roomId) throws a TypeError when the id is not a key of State.rooms
GetRoomLabelThrows(regs, roomId) == roomId \notin Range(regs)

\* the aperture loop body of save() and path_input() throws on this aperture
DescriptorThrows(ap, regs) ==
    IF ap.grounded
    THEN Len(ap.rooms) = 0 \/ GetRoomLabelThrows(regs, ap.rooms[1])
    ELSE /\ Len(ap.rooms) = 2
         /\ GetRoomLabelThrows(regs, ap.rooms[1]) \/ GetRoomLabelThrows(regs, ap.rooms[2])

SaveThrows(aps, regs) == \E i \in 1..Len(aps) : DescriptorThrows(aps[i], regs)

\* the descriptors save() pushes for one aperture: one, or none for an unlinked aperture
Descriptors(ap, heap) ==
    IF ap.grounded
    THEN << [origin |-> heap[ap.rooms[1]].label,
             destination |-> IF Len(ap.rooms) >= 2 THEN ap.rooms[2] ELSE Undefined,
             area |-> ap.area] >>
    ELSE IF Len(ap.rooms) = 2
    THEN << [origin |-> heap[ap.rooms[1]].label,
             destination |-> heap[ap.rooms[2]].label,
             area |-> ap.area] >>
    ELSE << >>

RECURSIVE AperturesList(_, _)
AperturesList(aps, heap) ==
    IF aps = << >> THEN << >>
    ELSE Descriptors(Head(aps), heap) \o AperturesList(Tail(aps), heap)

\* JSON.stringify of the master object; ui_data is kept as its room entries and its
\* "apertures" entry, which overwrites the entry of a room labelled "apertures"
MasterJson(keys, aps, heap) ==
    LET r == SaveRooms(keys, heap, [files |-> << >>, roomFiles |-> << >>, ui_data |-> << >>])
    IN  [json |->
            [has |-> {"rooms", "apertures", "ui"},
             rooms |-> r.roomFiles,
             apertures |-> AperturesList(aps, heap),
             ui |-> [rooms |-> SelectSeq(r.ui_data, LAMBDA e : e.key # "apertures"),
                     apertures |-> [i \in 1..Len(aps) |-> aps[i].ui]]]]

\* the files save() has downloaded when it returns or throws
SaveFiles(keys, aps, heap) ==
    LET r == SaveRooms(keys, heap, [files |-> << >>, roomFiles |-> << >>, ui_data |-> << >>])
    IN  IF SaveThrows(aps, keys) THEN r.files
        ELSE Append(r.files, [name |-> MasterFileName, content |-> MasterJson(keys, aps, heap)])

\* #save-layout: save()
SaveClick ==
    /\ NoGesture
    /\ downloads' = SaveFiles(rooms, apertures, roomHeap)
    /\ saved' = IF SaveThrows(apertures, rooms) THEN [ok |-> FALSE]
                ELSE [ok |-> TRUE,
                      rooms |-> rooms, apertures |-> apertures, roomHeap |-> roomHeap]
    /\ UNCHANGED << graphVars, selected, linkVars, modeVars, canvas, layerVars, notice,
                    loads, svcVars, dragVars, timeVars >>

---------------------------------------------------------------------------
(* LoadSaveManager: load *)

\* what JSON.parse makes of a file's text; texts that do not parse give the fallback
\* a parsed document: the entries it has, and their values (empty when it lacks them)
Doc(has) ==
    [has |-> has, rooms |-> << >>, apertures |-> << >>,
     ui |-> [rooms |-> << >>, apertures |-> << >>]]

NoDoc == Doc({})

SafeParseJSON(content, fallback) ==
    IF "json" \in DOMAIN content THEN content.json
    ELSE IF content.text = "{\"rooms\": {}}" THEN Doc({"rooms"})
    ELSE IF content.text \in {DefaultRoomText, "{\"area\": 2}", "{\"area\": -1}",
                              "{\"area\": 0}", "{}"} THEN Doc({"other"})
    ELSE fallback

\* a test that takes either entry for a master
IsMasterEither(json) == "rooms" \in json.has \/ "apertures" \in json.has

\* json?.rooms && json?.apertures
IsMaster(json) == "rooms" \in json.has /\ "apertures" \in json.has

\* findMaster(files): position of the first file that qualifies, 0 if none does
FindMaster(files) ==
    IF \E i \in 1..Len(files) : IsMaster(SafeParseJSON(files[i].content, NoDoc))
    THEN CHOOSE i \in 1..Len(files) :
            /\ IsMaster(SafeParseJSON(files[i].content, NoDoc))
            /\ \A j \in 1..(i - 1) : ~IsMaster(SafeParseJSON(files[j].content, NoDoc))
    ELSE 0

\* [...fileList].find(f => f.name === name), then its text; "{}" when there is none
FileText(files, name) ==
    IF \E i \in 1..Len(files) : files[i].name = name
    THEN LET i == CHOOSE k \in 1..Len(files) :
                    files[k].name = name /\ \A j \in 1..(k - 1) : files[j].name # name
         IN  IF "text" \in DOMAIN files[i].content THEN files[i].content.text
             ELSE "<master>"
    ELSE "{}"

\* uiData[label]: the "apertures" entry is the list of aperture positions
RoomUIData(uiData, label) ==
    IF label = "apertures" THEN ListUI(uiData.apertures)
    ELSE IF ObjHas(uiData.rooms, label) THEN ObjGet(uiData.rooms, label)
    ELSE NoUI

\* one turn of the room loop of load(); g is the state the load works on.
\* createDomRoom(room) throws a TypeError when room.ui has no position or size
LoadRoom(g, entry, hasUIData, uiData, files) ==
    LET label == entry.key
        text == FileText(files, entry.value)
        roomUIData == IF hasUIData THEN RoomUIData(uiData, label) ELSE NoUI
        id == GenerateId(g.nextId + 1)
        room == CreateRoom(id, [label |-> label, data |-> text, ui |-> roomUIData], g.rooms)
    IN  IF g.threw THEN g
        ELSE IF ~HasBox(room.ui)
        THEN [g EXCEPT !.nextId = @ + 1,
                       !.roomHeap = @ @@ (id :> room),
                       !.rooms = Append(@, id),
                       !.threw = TRUE]
        ELSE [g EXCEPT !.nextId = @ + 1,
                       !.roomHeap = @ @@ (id :> room),
                       !.rooms = Append(@, id),
                       !.temp_rooms = ObjPut(@, label, id),
                       !.canvas = Append(@, DomRoom(room))]

RECURSIVE LoadRooms(_, _, _, _, _)
LoadRooms(g, entries, hasUIData, uiData, files) ==
    IF entries = << >> THEN g
    ELSE LoadRooms(LoadRoom(g, Head(entries), hasUIData, uiData, files),
                   Tail(entries), hasUIData, uiData, files)

\* one turn of the aperture loop of load(), for the descriptor at position i (from 1).
\* createDomAperture(aperture) throws a TypeError when aperture.ui is undefined, and
\* when the aperture is grounded and its side is undefined (aperture.rooms[1][0])
LoadAperture(g, ap, i, hasUIData, uiData) ==
    LET hasA == ObjHas(g.temp_rooms, ap.origin)
        hasB == ObjHas(g.temp_rooms, ap.destination)
        id == GenerateId(g.nextId + 1)
        roomA == g.roomHeap[ObjGet(g.temp_rooms, ap.origin)]
        made == IF hasB
                THEN CreateApertureBetween(id, roomA,
                         g.roomHeap[ObjGet(g.temp_rooms, ap.destination)], ap.area)
                ELSE CreateGroundedAperture(id, roomA, ap.destination, ap.area)
        noUI == hasUIData /\ i > Len(uiData.apertures)
        noSide == ~hasB /\ ap.destination = Undefined
        aperture == IF ~hasUIData THEN made
                    ELSE IF noUI THEN [made EXCEPT !.ui = NoUI]
                    ELSE [made EXCEPT !.ui = uiData.apertures[i]]
        aps == SetAperture(g.apertures, id, aperture)
    IN  IF g.threw \/ ~hasA THEN g
        ELSE IF noUI \/ noSide
        THEN [g EXCEPT !.nextId = @ + 1, !.apertures = aps, !.threw = TRUE]
        ELSE LET cv == Append(g.canvas, DomAperture(aperture))
                 up == Update(aps, g.rooms, cv)
             IN  [g EXCEPT !.nextId = @ + 1, !.apertures = aps, !.canvas = cv,
                           !.svg = up.svg, !.highlightSvg = up.highlightSvg,
                           !.live = up.live]

RECURSIVE LoadApertures(_, _, _, _, _)
LoadApertures(g, apertureData, i, hasUIData, uiData) ==
    IF i > Len(apertureData) THEN g
    ELSE LoadApertures(LoadAperture(g, apertureData[i], i, hasUIData, uiData),
                       apertureData, i + 1, hasUIData, uiData)

\* load(fileList) once findMaster has returned the master: reset(), rooms, apertures
Load(master, files) ==
    LET hasUIData == "ui" \in master.has
        uiData == master.ui
        g0 == [nextId |-> nextId, roomHeap |-> roomHeap, rooms |-> << >>,
               apertures |-> << >>, canvas |-> << >>, temp_rooms |-> << >>,
               svg |-> connectionLayer, highlightSvg |-> highlightedConnectionLayer,
               live |-> liveLines, threw |-> FALSE]
        g1 == LoadRooms(g0, master.rooms, hasUIData, uiData, files)
    IN  LoadApertures(g1, master.apertures, 1, hasUIData, uiData)

\* the files with positions in S among the downloaded ones, in download order
RECURSIVE Pick(_, _, _)
Pick(files, S, i) ==
    IF i > Len(files) THEN << >>
    ELSE (IF i \in S THEN << files[i] >> ELSE << >>) \o Pick(files, S, i + 1)

\* change event of #fileInput: load(files), then renderer.update()
FileInputChange(S) ==
    /\ NoGesture
    /\ LET files == Pick(downloads, S, 1)
           m == FindMaster(files)
       IN  IF m = 0
           THEN /\ notice' = "Master file not found."
                /\ UNCHANGED << graphVars, canvas, layerVars >>
           ELSE LET master == SafeParseJSON(files[m].content, NoDoc)
                    g == Load(master, files)
                    up == Update(g.apertures, g.rooms, g.canvas)
                IN  /\ nextId + Len(master.rooms) + Len(master.apertures) <= MaxLoadId
                    /\ nextId' = g.nextId
                    /\ roomHeap' = g.roomHeap
                    /\ rooms' = g.rooms
                    /\ apertures' = g.apertures
                    /\ canvas' = g.canvas
                    /\ connectionLayer' = IF g.threw THEN g.svg ELSE up.svg
                    /\ highlightedConnectionLayer' =
                           IF g.threw THEN g.highlightSvg ELSE up.highlightSvg
                    /\ liveLines' = IF g.threw THEN g.live ELSE up.live
                    /\ UNCHANGED notice
    /\ UNCHANGED << selected, linkVars, modeVars, downloads, saved, loads, svcVars, dragVars,
                    timeVars >>

---------------------------------------------------------------------------
(* load() with its suspension points: the awaits of findMaster, and the await of
   matchingFile.text() in the room loop *)

\* the room loop from entry i on, up to the next await or to its end; resumed tells
\* that the text awaited for entry i has arrived
RECURSIVE LoadRoomsToAwait(_, _, _, _, _, _, _)
LoadRoomsToAwait(g, entries, i, hasUIData, uiData, files, resumed) ==
    IF i > Len(entries) \/ g.threw THEN [g |-> g, i |-> i]
    ELSE IF ~resumed /\ \E k \in 1..Len(files) : files[k].name = entries[i].value
    THEN [g |-> g, i |-> i]
    ELSE LoadRoomsToAwait(LoadRoom(g, entries[i], hasUIData, uiData, files),
                          entries, i + 1, hasUIData, uiData, files, FALSE)

RemoveAt(list, n) == SubSeq(list, 1, n - 1) \o SubSeq(list, n + 1, Len(list))

\* load() n goes on from the room loop state r until it awaits again, throws, or
\* returns (and the handler calls renderer.update())
LoadGoesOn(n, master, r) ==
    LET hasUIData == "ui" \in master.has
        waits == ~r.g.threw /\ r.i <= Len(master.rooms)
        g == IF r.g.threw \/ waits THEN r.g
             ELSE LoadApertures(r.g, master.apertures, 1, hasUIData, master.ui)
        up == Update(g.apertures, g.rooms, g.canvas)
    IN  /\ nextId' = g.nextId
        /\ roomHeap' = g.roomHeap
        /\ rooms' = g.rooms
        /\ apertures' = g.apertures
        /\ canvas' = g.canvas
        /\ connectionLayer' = IF g.threw \/ waits THEN g.svg ELSE up.svg
        /\ highlightedConnectionLayer' =
               IF g.threw \/ waits THEN g.highlightSvg ELSE up.highlightSvg
        /\ liveLines' = IF g.threw \/ waits THEN g.live ELSE up.live
        /\ loads' = IF waits
                    THEN [loads EXCEPT ![n] = [files |-> loads[n].files, pc |-> "room",
                                               master |-> master, i |-> r.i,
                                               temp_rooms |-> g.temp_rooms]]
                    ELSE RemoveAt(loads, n)

\* change event of #fileInput: load(files) is called and awaits the first file's text
LoadCall(S) ==
    /\ NoGesture
    /\ Len(loads) < MaxLoads
    /\ loads' = Append(loads, [files |-> Pick(downloads, S, 1), pc |-> "findMaster"])
    /\ UNCHANGED << graphVars, selected, linkVars, modeVars, canvas, layerVars, downloads,
                    notice, saved, svcVars, dragVars, timeVars >>

\* findMaster() of load() n has read the files: alert and return, or reset() and the
\* room loop up to its first await
LoadFindMasterDone(n) ==
    /\ loads[n].pc = "findMaster"
    /\ LET files == loads[n].files
           m == FindMaster(files)
       IN  IF m = 0
           THEN /\ notice' = "Master file not found."
                /\ loads' = RemoveAt(loads, n)
                /\ UNCHANGED << graphVars, canvas, layerVars >>
           ELSE LET master == SafeParseJSON(files[m].content, NoDoc)
                    g0 == [nextId |-> nextId, roomHeap |-> roomHeap, rooms |-> << >>,
                           apertures |-> << >>, canvas |-> << >>, temp_rooms |-> << >>,
                           svg |-> connectionLayer,
                           highlightSvg |-> highlightedConnectionLayer,
                           live |-> liveLines, threw |-> FALSE]
                IN  /\ nextId + Len(master.rooms) + Len(master.apertures) <= MaxLoadId
                    /\ LoadGoesOn(n, master,
                           LoadRoomsToAwait(g0, master.rooms, 1, "ui" \in master.has,
                                            master.ui, files, FALSE))
                    /\ UNCHANGED notice
    /\ UNCHANGED << selected, linkVars, modeVars, downloads, saved, svcVars, dragVars, timeVars >>

\* the text load() n awaited in its room loop has arrived
LoadRoomTextDone(n) ==
    /\ loads[n].pc = "room"
    /\ LET master == loads[n].master
           g0 == [nextId |-> nextId, roomHeap |-> roomHeap, rooms |-> rooms,
                  apertures |-> apertures, canvas |-> canvas,
                  temp_rooms |-> loads[n].temp_rooms,
                  svg |-> connectionLayer, highlightSvg |-> highlightedConnectionLayer,
                  live |-> liveLines, threw |-> FALSE]
       IN  LoadGoesOn(n, master,
              LoadRoomsToAwait(g0, master.rooms, loads[n].i, "ui" \in master.has,
                               master.ui, loads[n].files, TRUE))
    /\ UNCHANGED << selected, linkVars, modeVars, downloads, notice, saved, svcVars, dragVars,
                    timeVars >>

---------------------------------------------------------------------------
(* throttle and the clock *)

ThrottleDelay == 16

\* a throttle that lets every call through
ThrottleOpenAlways(t, lastRun, delay) == TRUE

\* the test of throttle(fn, delay): the call is let through
ThrottleOpen(t, lastRun, delay) == t - lastRun >= delay

\* this.throttledRender(): renderer.update() over the canvas cv, if let through
ThrottledRender(cv) ==
    IF ThrottleOpen(now, last, ThrottleDelay)
    THEN LET up == Update(apertures', rooms, cv)
         IN  /\ last' = now
             /\ connectionLayer' = up.svg
             /\ highlightedConnectionLayer' = up.highlightSvg
             /\ liveLines' = up.live
             /\ renderTimes' = IF renderTimes = << >> THEN << now >>
                               ELSE << renderTimes[Len(renderTimes)], now >>
    ELSE UNCHANGED << last, layerVars, renderTimes >>

\* lengths of time that pass between two events
TickSteps == {8, 16}

Tick(d) ==
    /\ now + d <= MaxTime
    /\ now' = now + d
    /\ UNCHANGED << graphVars, selected, linkVars, modeVars, canvas, layerVars, ioVars, svcVars,
                    dragVars, last, renderTimes >>

---------------------------------------------------------------------------
(* DragResizeManager *)

\* places of the pointer, in pixels
Pointers == { << 60, 60 >>, << 120, 100 >> }

\* parseInt(el.style.left, 10): the whole pixels of a length
ParseInt(v) == IF v >= 0 THEN (v \div 4) * 4 ELSE 0 - (((0 - v) \div 4) * 4)

PointerOver(el, p) ==
    /\ el.left <= Px(p[1]) /\ Px(p[1]) < el.left + el.width
    /\ el.top <= Px(p[2]) /\ Px(p[2]) < el.top + el.height

\* faulty variant: no least size
MinSizeNone == Px(0)

MinSize == Px(40)

Max(a, b) == IF a >= b THEN a ELSE b

\* document.addEventListener("mousemove", fn): a listener is registered once
AddEventListener(ls, fn) ==
    IF \E k \in 1..Len(ls) : ls[k] = fn THEN ls ELSE Append(ls, fn)

\* faulty variant: a drag starts in link mode as well
StartDragNeverReturns == FALSE

\* the early return of startDrag(el, e)
StartDragReturns == linkMode

\* mousedown on an element: startResize on the handle of a room, startDrag otherwise
MouseDown(i, p, onHandle) ==
    /\ PointerOver(canvas[i], p)
    /\ onHandle => canvas[i].kind = "room"
    /\ gestures < MaxGestures
    /\ IF onHandle
       THEN /\ resizing' = canvas[i].id
            /\ listeners' = AddEventListener(listeners, "onResize")
            /\ gestures' = gestures + 1
            /\ UNCHANGED << dragging, offsetX, offsetY >>
       ELSE IF StartDragReturns
       THEN UNCHANGED dragVars
       ELSE /\ dragging' = canvas[i].id
            /\ offsetX' = Px(p[1]) - ParseInt(canvas[i].left)
            /\ offsetY' = Px(p[2]) - ParseInt(canvas[i].top)
            /\ listeners' = AddEventListener(listeners, "onDrag")
            /\ gestures' = gestures + 1
            /\ UNCHANGED resizing
    /\ UNCHANGED << graphVars, selected, linkVars, modeVars, canvas, layerVars, ioVars, svcVars,
                    timeVars >>

\* faulty variant: the position of an aperture is not written
UpdateUIDataOfRooms(id, left, top) ==
    /\ roomHeap' = IF id \in Range(rooms)
                   THEN [roomHeap EXCEPT ![id].ui.position = [left |-> left, top |-> top]]
                   ELSE roomHeap
    /\ apertures' = apertures

\* updateUIData(el, left, top)
UpdateUIData(id, left, top) ==
    /\ roomHeap' = IF id \in Range(rooms)
                   THEN [roomHeap EXCEPT ![id].ui.position = [left |-> left, top |-> top]]
                   ELSE roomHeap
    /\ apertures' = [k \in 1..Len(apertures) |->
                        IF apertures[k].key = id
                        THEN [apertures[k] EXCEPT !.ui.position = [left |-> left, top |-> top]]
                        ELSE apertures[k]]

\* onDrag(e)
OnDrag(p) ==
    LET left == Px(p[1]) - offsetX
        top == Px(p[2]) - offsetY
        cv == [k \in 1..Len(canvas) |->
                 IF canvas[k].id = dragging
                 THEN [canvas[k] EXCEPT !.left = left, !.top = top] ELSE canvas[k]]
    IN  /\ canvas' = cv
        /\ UpdateUIData(dragging, left, top)
        /\ ThrottledRender(cv)

\* onResize(e)
OnResize(p) ==
    LET el == canvas[FindEl(canvas, resizing)]
        width == Max(MinSize, Px(p[1]) - el.left)
        height == Max(MinSize, Px(p[2]) - el.top)
        cv == [k \in 1..Len(canvas) |->
                 IF canvas[k].id = resizing
                 THEN [canvas[k] EXCEPT !.width = width, !.height = height] ELSE canvas[k]]
    IN  /\ canvas' = cv
        /\ roomHeap' = IF resizing \in Range(rooms)
                       THEN [roomHeap EXCEPT ![resizing].ui.size =
                                                [width |-> width, height |-> height]]
                       ELSE roomHeap
        /\ UNCHANGED apertures
        /\ ThrottledRender(cv)

\* times of the last two runs once a run is made at time t
RenderTimesWith(times, t) ==
    IF times = << >> THEN << t >> ELSE << times[Len(times)], t >>

\* onDrag(e) and onResize(e) both registered: the document calls them in the order of
\* their registration, each ending in this.throttledRender()
OnBoth(p, first) ==
    LET left == Px(p[1]) - offsetX
        top == Px(p[2]) - offsetY
        dragged(cv) == [k \in 1..Len(cv) |->
                          IF cv[k].id = dragging
                          THEN [cv[k] EXCEPT !.left = left, !.top = top] ELSE cv[k]]
        width(cv) == Max(MinSize, Px(p[1]) - cv[FindEl(cv, resizing)].left)
        height(cv) == Max(MinSize, Px(p[2]) - cv[FindEl(cv, resizing)].top)
        resized(cv) == [k \in 1..Len(cv) |->
                          IF cv[k].id = resizing
                          THEN [cv[k] EXCEPT !.width = width(cv), !.height = height(cv)]
                          ELSE cv[k]]
        rect == IF first = "onDrag" THEN dragged(canvas) ELSE canvas
        cv1 == IF first = "onDrag" THEN dragged(canvas) ELSE resized(canvas)
        cv2 == IF first = "onDrag" THEN resized(cv1) ELSE dragged(cv1)
        heap1 == IF dragging \in Range(rooms)
                 THEN [roomHeap EXCEPT ![dragging].ui.position = [left |-> left, top |-> top]]
                 ELSE roomHeap
        heap2 == IF resizing \in Range(rooms)
                 THEN [heap1 EXCEPT ![resizing].ui.size =
                                       [width |-> width(rect), height |-> height(rect)]]
                 ELSE heap1
        aps == [k \in 1..Len(apertures) |->
                  IF apertures[k].key = dragging
                  THEN [apertures[k] EXCEPT !.ui.position = [left |-> left, top |-> top]]
                  ELSE apertures[k]]
        open1 == ThrottleOpen(now, last, ThrottleDelay)
        last1 == IF open1 THEN now ELSE last
        open2 == ThrottleOpen(now, last1, ThrottleDelay)
        times1 == IF open1 THEN RenderTimesWith(renderTimes, now) ELSE renderTimes
        up == Update(aps, rooms, IF open2 THEN cv2 ELSE cv1)
    IN  /\ canvas' = cv2
        /\ roomHeap' = heap2
        /\ apertures' = aps
        /\ last' = IF open2 THEN now ELSE last1
        /\ renderTimes' = IF open2 THEN RenderTimesWith(times1, now) ELSE times1
        /\ IF open1 \/ open2
           THEN /\ connectionLayer' = up.svg
                /\ highlightedConnectionLayer' = up.highlightSvg
                /\ liveLines' = up.live
           ELSE UNCHANGED layerVars

\* mousemove on the document while a gesture is in progress
MouseMove(p) ==
    /\ listeners # << >>
    /\ IF Len(listeners) = 2 THEN OnBoth(p, listeners[1])
       ELSE IF listeners[1] = "onDrag" THEN OnDrag(p) ELSE OnResize(p)
    /\ UNCHANGED << nextId, rooms, selected, linkVars, modeVars, ioVars, svcVars, dragVars,
                    now >>

\* mouseup on the document: stopDrag() / stopResize()
MouseUp ==
    /\ listeners # << >>
    /\ dragging' = IF \E k \in 1..Len(listeners) : listeners[k] = "onDrag"
                   THEN NoId ELSE dragging
    /\ resizing' = IF \E k \in 1..Len(listeners) : listeners[k] = "onResize"
                   THEN NoId ELSE resizing
    /\ listeners' = << >>
    /\ UNCHANGED << graphVars, selected, linkVars, modeVars, canvas, layerVars, ioVars, svcVars,
                    offsetX, offsetY, gestures, now, last, renderTimes >>

---------------------------------------------------------------------------
(* TransportPathManager *)

\* #deduce-transport-paths; path_input() throws where save() does, and then
\* start() and the handler end early
DeducePathsClick ==
    /\ NoGesture
    /\ selected' = NoId
    /\ LET cv == DisableLinkModeCanvas(ClearSelection(canvas, selected), linkingDOMElements)
       IN  canvas' = IF ~transportPathMode /\ SaveThrows(apertures, rooms)
                     THEN cv
                     ELSE ResultsEndCanvas(cv)
    /\ linkMode' = FALSE
    /\ linkSelection' = EmptyLinkSelection
    /\ linkingDOMElements' = << >>
    /\ IF transportPathMode
       THEN /\ ResultsEnd
            /\ UNCHANGED << transportPathMode, pendingPaths >>
       ELSE /\ transportPathMode' = TRUE
            /\ IF SaveThrows(apertures, rooms)
               THEN UNCHANGED << resultsViewMode, resultsView, pendingPaths >>
               ELSE /\ pendingPaths' = IF "transport" \in reachable
                                       THEN pendingPaths + 1
                                       ELSE pendingPaths
                    /\ ResultsEnd
    /\ pendingPaths < MaxTiles
    /\ UNCHANGED << graphVars, tiles, layerVars, ioVars, netVars, calls, editVars, viewVars,
                    dragVars, timeVars >>

\* change event of #resultsFileInput: ResultsViewManager.start(file)
ResultsFileInputChange ==
    /\ NoGesture
    /\ selected' = NoId
    /\ canvas' = DisableLinkModeCanvas(ClearSelection(canvas, selected), linkingDOMElements)
    /\ linkMode' = FALSE
    /\ linkSelection' = EmptyLinkSelection
    /\ linkingDOMElements' = << >>
    /\ TransportEnd
    /\ resultsViewMode' = TRUE
    /\ IF "results" \in reachable
       THEN /\ calls < MaxRequests
            /\ calls' = calls + 1
            /\ resultsLoads' = Append(resultsLoads, [call |-> calls + 1])
       ELSE UNCHANGED << calls, resultsLoads >>
    /\ UNCHANGED << graphVars, pendingPaths, layerVars, ioVars, netVars, editVars,
                    validTimes, rangeQueries, valueQueries, min, max, speciesInput,
                    timeSlider, resultsView, dragVars, timeVars >>

ApertureIds == {apertures[i].id : i \in 1..Len(apertures)}

\* the backend answers a request with one path: a tile is appended for it
PathsResponse(path) ==
    /\ pendingPaths > 0
    /\ Len(tiles) < MaxTiles
    /\ pendingPaths' = pendingPaths - 1
    /\ tiles' = Append(tiles, path)
    /\ UNCHANGED << graphVars, selected, linkVars, transportPathMode, resultsViewMode,
                    canvas, layerVars, ioVars, svcVars, dragVars, timeVars >>

\* mouseenter / mouseleave on a path tile: TransportPathManager.highlightFor(path, mode)
TileHover(i, mode) ==
    /\ LET ls == TransportModeFor(Layers, tiles[i], mode)
       IN  /\ connectionLayer' = ls.svg
           /\ highlightedConnectionLayer' = ls.highlightSvg
    /\ canvas' = [k \in 1..Len(canvas) |->
                     IF canvas[k].kind = "aperture" /\ canvas[k].id \in tiles[i]
                     THEN [canvas[k] EXCEPT !.classes =
                              IF mode THEN @ \cup {"transport"} ELSE @ \ {"transport"}]
                     ELSE canvas[k]]
    /\ UNCHANGED << graphVars, selected, linkVars, modeVars, liveLines, ioVars, svcVars, dragVars,
                    timeVars >>

---------------------------------------------------------------------------
(* Specifications *)

\* link mode and the graph: the toolbar, element and keyboard handlers and the removals
Next ==
    \/ AddRoomClick
    \/ AddApertureClick
    \/ \E i \in 1..Len(canvas) : RoomClick(i)
    \/ \E side \in Sides : BannerClick(side)
    \/ CanvasClick
    \/ EscapeKey
    \/ \E id \in Range(rooms) : RemoveRoom(id)
    \/ \E id \in {apertures[i].key : i \in 1..Len(apertures)} : RemoveAperture(id)

Spec == Init /\ [][Next]_vars

\* the renderer: graph building, removals, hovering of apertures and of path tiles
NextRender ==
    \/ AddRoomClick
    \/ ~linkMode /\ AddApertureClick
    \/ \E i \in 1..Len(canvas) : RoomClick(i)
    \/ \E side \in {"Left"} : BannerClick(side)
    \/ ~linkMode /\ \E id \in Range(rooms) : RemoveRoom(id)
    \/ ~linkMode /\ \E i \in 1..Len(canvas), mode \in BOOLEAN : ApertureHover(i, mode)
    \/ DeducePathsClick
    \/ \E path \in SUBSET ApertureIds : PathsResponse(path)
    \/ \E i \in 1..Len(tiles), mode \in BOOLEAN : TileHover(i, mode)

SpecRender == Init /\ [][NextRender]_vars

\* save and load: a layout is edited, then saved and loaded
NextIO ==
    \/ downloads = << >> /\ AddRoomClick
    \/ downloads = << >> /\ ~linkMode /\ AddApertureClick
    \/ downloads = << >> /\ \E i \in 1..Len(canvas) : RoomClick(i)
    \/ downloads = << >> /\ \E side \in {"Left"} : BannerClick(side)
    \/ downloads = << >> /\ ~linkMode /\ \E i \in 1..Len(canvas), text \in TypedLabels : LabelBlur(i, text)
    \/ downloads = << >> /\ ~linkMode /\ \E txt \in EditorTexts : EditorInput(txt)
    \/ downloads = << >> /\ ~linkMode /\ SaveClick
    \/ \E S \in (SUBSET (1..Len(downloads))) \ {{}} : FileInputChange(S)

SpecIO == Init /\ [][NextIO]_vars

\* dragging and resizing under the clock
NextDrag ==
    \/ now = 0 /\ AddRoomClick
    \/ now = 0 /\ ~linkMode /\ AddApertureClick
    \/ now = 0 /\ \E i \in 1..Len(canvas) : RoomClick(i)
    \/ now >= ThrottleDelay /\ NoGesture /\ \E i \in 1..Len(canvas), p \in Pointers, onHandle \in BOOLEAN : MouseDown(i, p, onHandle)
    \/ \E p \in Pointers : MouseMove(p)
    \/ MouseUp
    \/ \E d \in TickSteps : Tick(d)

SpecDrag == Init /\ [][NextDrag]_vars

\* laying out: rooms are added, dragged and resized, and linked; the clock stands still
NextLayout ==
    \/ AddRoomClick
    \/ ~linkMode /\ AddApertureClick
    \/ \E i \in 1..Len(canvas) : RoomClick(i)
    \/ NoGesture /\ \E i \in 1..Len(canvas), p \in Pointers, onHandle \in BOOLEAN : MouseDown(i, p, onHandle)
    \/ \E p \in Pointers : MouseMove(p)
    \/ MouseUp

SpecLayout == Init /\ [][NextLayout]_vars

\* load of files a user has at hand: each initial state holds one upload set
UploadText == "{\"area\": 2}"

UploadBox ==
    [position |-> [left |-> Px(10), top |-> Px(20)],
     size |-> [width |-> Px(100), height |-> Px(60)]]

UploadPositions ==
    << [position |-> [left |-> Px(30), top |-> Px(40)]],
       [position |-> [left |-> Px(70), top |-> Px(80)]] >>

\* an entry of the master's rooms map, as save() writes it for this label
UploadRoomEntry(label) == [key |-> label, value |-> RoomFileName(label)]

UploadRoomMaps ==
    { << UploadRoomEntry("Hall") >>,
      << UploadRoomEntry("Hall"), UploadRoomEntry("Den") >>,
      << UploadRoomEntry("") >>,
      << UploadRoomEntry("apertures") >> }

UploadDescriptors ==
    {[origin |-> o, destination |-> d, area |-> 1] :
        o \in {"Hall", "Attic"}, d \in {"Den", "Left", "Attic", Undefined}}

UploadDescriptorLists ==
    {<< >>} \cup {<< d >> : d \in UploadDescriptors}
            \cup {<< d1, d2 >> : d1, d2 \in {d \in UploadDescriptors :
                                                d.destination \in {"Den", "Left"}}}

UploadUIRooms ==
    { << >>,
      << [key |-> "Hall", value |-> UploadBox] >>,
      << [key |-> "Hall", value |-> ListUI(<< >>)] >> }

UploadUIApertures == {SubSeq(UploadPositions, 1, n) : n \in 0..Len(UploadPositions)}

\* master documents: with a ui block, and without one
UploadMasters ==
    {[has |-> {"rooms", "apertures", "ui"}, rooms |-> r, apertures |-> a,
      ui |-> [rooms |-> ur, apertures |-> ua]] :
        r \in UploadRoomMaps, a \in UploadDescriptorLists,
        ur \in UploadUIRooms, ua \in UploadUIApertures}
    \cup
    {[has |-> {"rooms", "apertures"}, rooms |-> r, apertures |-> a,
      ui |-> [rooms |-> << >>, apertures |-> << >>]] :
        r \in UploadRoomMaps, a \in UploadDescriptorLists}

\* the room files the master names, then the master
UploadSet(master) ==
    [i \in 1..Len(master.rooms) |->
        [name |-> master.rooms[i].value, content |-> [text |-> UploadText]]]
    \o << [name |-> MasterFileName, content |-> [json |-> master]] >>

InitLoad ==
    /\ nextId = 0
    /\ roomHeap = << >>
    /\ rooms = << >>
    /\ apertures = << >>
    /\ selected = NoId
    /\ linkMode = FALSE
    /\ linkSelection = << >>
    /\ linkingDOMElements = << >>
    /\ transportPathMode = FALSE
    /\ resultsViewMode = FALSE
    /\ canvas = << >>
    /\ connectionLayer = << >>
    /\ highlightedConnectionLayer = << >>
    /\ liveLines = 0
    /\ pendingPaths = 0
    /\ tiles = << >>
    /\ downloads \in {UploadSet(m) : m \in UploadMasters}
    /\ notice = ""
    /\ now = 0
    /\ last = 0
    /\ dragging = NoId
    /\ resizing = NoId
    /\ offsetX = 0
    /\ offsetY = 0
    /\ renderTimes = << >>
    /\ gestures = 0
    /\ listeners = << >>
    /\ loads = << >>
    /\ reachable = {"transport"}
    /\ validations = << >>
    /\ jsonError = [display |-> "none", innerHTML |-> ""]
    /\ resultsLoads = << >>
    /\ calls = 0
    /\ answered = 0
    /\ validTimes = "null"
    /\ rangeQueries = << >>
    /\ valueQueries = << >>
    /\ min = Null
    /\ max = Null
    /\ speciesInput = ""
    /\ timeSlider = 0
    /\ resultsView = "none"
    /\ saved = [ok |-> FALSE]

\* the page has just been opened: one load, of some of the files
NextLoad ==
    nextId = 0 /\ notice = "" /\ \E S \in (SUBSET (1..Len(downloads))) \ {{}} : FileInputChange(S)

SpecLoad == InitLoad /\ [][NextLoad]_vars

---------------------------------------------------------------------------
(* Claims about link mode and the graph, under Spec *)

Registered(id) == id \in Range(rooms)

\* the apertures registered before a step are all still there, unchanged, and one was added
OneApertureAdded ==
    /\ Len(apertures') = Len(apertures) + 1
    /\ \A k \in 1..Len(apertures) : apertures'[k] = apertures[k]

NewAperture == apertures'[Len(apertures')]

\* C1: with link mode active, clicking a room A and then a different room B (both
\* registered) selects A and then adds exactly one aperture, not grounded, between
\* A and B in this order and of area 1.0, and leaves link mode off with no selection.
C1_LinkTwoRooms ==
    [][\A i \in 1..Len(canvas) :
         /\ (/\ RoomClick(i)
             /\ linkMode /\ linkSelection = << >>
             /\ Registered(canvas[i].id))
            => (/\ linkSelection' = << canvas[i].id >>
                /\ linkMode'
                /\ apertures' = apertures)
         /\ (/\ RoomClick(i)
             /\ linkMode /\ Len(linkSelection) = 1
             /\ linkSelection[1] # canvas[i].id
             /\ Registered(linkSelection[1]) /\ Registered(canvas[i].id))
            => (/\ OneApertureAdded
                /\ NewAperture.grounded = FALSE
                /\ NewAperture.rooms = << linkSelection[1], canvas[i].id >>
                /\ NewAperture.area = 1
                /\ ~linkMode'
                /\ linkSelection' = << >>)
    ]_vars

\* an aperture made by linking two distinct registered rooms, link mode being over
C1_Witness ==
    /\ ~linkMode /\ linkSelection = << >>
    /\ \E k \in 1..Len(apertures) :
          /\ ~apertures[k].grounded
          /\ Len(apertures[k].rooms) = 2
          /\ apertures[k].rooms[1] # apertures[k].rooms[2]
          /\ Registered(apertures[k].rooms[1]) /\ Registered(apertures[k].rooms[2])

\* C2: with link mode active and exactly one room R selected, clicking the banner of
\* a side adds exactly one aperture, grounded, with rooms [R, side], and leaves link
\* mode off with no selection.
C2_LinkRoomToSide ==
    [][\A side \in Sides :
         (/\ BannerClick(side)
          /\ linkMode /\ Len(linkSelection) = 1)
         => (/\ OneApertureAdded
             /\ NewAperture.grounded = TRUE
             /\ NewAperture.rooms = << linkSelection[1], side >>
             /\ ~linkMode'
             /\ linkSelection' = << >>)
    ]_vars

\* a grounded aperture from a registered room to a side, link mode being over
C2_Witness ==
    /\ ~linkMode /\ linkSelection = << >>
    /\ \E k \in 1..Len(apertures) :
          /\ apertures[k].grounded
          /\ Len(apertures[k].rooms) = 2
          /\ Registered(apertures[k].rooms[1])
          /\ apertures[k].rooms[2] \in Sides

\* C21: after every handler linkSelection holds at most one room and is empty when
\* link mode is off; enableLinkMode(), disableLinkMode() and every creation of an
\* aperture through link mode leave it empty.
C21_LinkSelectionShape ==
    [][/\ Len(linkSelection') <= 1
       /\ ~linkMode' => linkSelection' = << >>
       /\ (AddApertureClick \/ CanvasClick \/ EscapeKey \/ OneApertureAdded)
              => linkSelection' = << >>
    ]_vars

\* link mode was entered again after an aperture was made through it
C21_Witness ==
    /\ linkMode /\ linkSelection = << >>
    /\ Len(apertures) > 0

\* C22: linkRoom(room) outside link mode, and linkClickBanner(side) outside link mode
\* or with a selection that is not exactly one room, change neither the room registry
\* nor the aperture registry nor linkMode, linkSelection and the linking markers.
C22_LinkCallsIgnored ==
    [][/\ \A i \in 1..Len(canvas) :
             (RoomClick(i) /\ ~linkMode)
             => UNCHANGED << rooms, roomHeap, apertures, linkMode, linkSelection,
                             linkingDOMElements >>
       /\ \A side \in Sides :
             (BannerClick(side) /\ (~linkMode \/ Len(linkSelection) # 1))
             => UNCHANGED << rooms, roomHeap, apertures, linkMode, linkSelection,
                             linkingDOMElements >>
    ]_vars

\* a room was clicked outside link mode: it is selected, and nothing was linked
C22_Witness ==
    /\ ~linkMode /\ selected # NoId
    /\ linkSelection = << >> /\ linkingDOMElements = << >>
    /\ apertures = << >>

\* a list without the entries equal to x, the others in their order
RECURSIVE Without(_, _)
Without(list, x) ==
    IF list = << >> THEN << >>
    ELSE IF Head(list) = x THEN Without(Tail(list), x)
    ELSE << Head(list) >> \o Without(Tail(list), x)

\* C3: removeRoom(id) takes id out of the room registry and out of every aperture's
\* rooms list and changes nothing else: the other rooms stay registered and unchanged,
\* no aperture is deleted, and the other entries, the area, the grounded flag and the
\* ui of every aperture stay as they were.
C3_RemoveRoomFrame ==
    [][\A id \in Range(rooms) :
         RemoveRoom(id)
         => (/\ ~(id \in Range(rooms'))
             /\ rooms' = Without(rooms, id)
             /\ roomHeap' = roomHeap
             /\ Len(apertures') = Len(apertures)
             /\ \A k \in 1..Len(apertures) :
                   /\ apertures'[k].key = apertures[k].key
                   /\ apertures'[k].id = apertures[k].id
                   /\ apertures'[k].area = apertures[k].area
                   /\ apertures'[k].grounded = apertures[k].grounded
                   /\ apertures'[k].ui = apertures[k].ui
                   /\ apertures'[k].rooms = Without(apertures[k].rooms, id))
    ]_vars

\* R1 and R2 were linked and R1 was removed: the aperture is left with [R2]
C3_Witness ==
    \E k \in 1..Len(apertures) :
        /\ ~apertures[k].grounded
        /\ Len(apertures[k].rooms) = 1
        /\ Registered(apertures[k].rooms[1])
        /\ \E n \in 1..nextId :
              /\ GenerateId(n) \in DOMAIN roomHeap
              /\ ~Registered(GenerateId(n))

\* C8: with link mode active, clicking a room that is already in the selection leaves
\* the selection as it is, creates no aperture and keeps link mode active.
C8_NoDoubleSelection ==
    [][\A i \in 1..Len(canvas) :
         (/\ RoomClick(i)
          /\ linkMode
          /\ canvas[i].id \in Range(linkSelection))
         => (/\ linkSelection' = linkSelection
             /\ apertures' = apertures
             /\ linkMode')
    ]_vars

\* C13: every aperture of Graph State has a rooms list of length 0 or of length 2.
C13_RoomsLengthZeroOrTwo ==
    \A k \in 1..Len(apertures) : Len(apertures[k].rooms) \in {0, 2}

\* C15: no core operation is fatal: in every reachable Graph State, apertures orphaned
\* by removeRoom included, save() and path_input() run to their end without an
\* uncaught error.
C15_NoOperationFatal ==
    \A k \in 1..Len(apertures) : ~DescriptorThrows(apertures[k], rooms)

\* C17: in the master document save() produces from the Graph State, ui.apertures is
\* as long as the apertures descriptor list and ui.apertures[i] is the UI position of
\* the aperture that apertures[i] describes.
C17_UIAperturesAligned ==
    ~SaveThrows(apertures, rooms) =>
        LET master == MasterJson(rooms, apertures, roomHeap).json
        IN  /\ Len(master.ui.apertures) = Len(master.apertures)
            /\ \A i \in 1..Len(master.apertures) :
                   \E k \in 1..Len(apertures) :
                      /\ Descriptors(apertures[k], roomHeap) = << master.apertures[i] >>
                      /\ master.ui.apertures[i] = apertures[k].ui

---------------------------------------------------------------------------
(* Claims about save and load, under SpecIO *)

UniqueLabels(keys, heap) ==
    \A i, j \in 1..Len(keys) : i # j => heap[keys[i]].label # heap[keys[j]].label

\* the rooms of a graph as seen from outside: label, data payload and UI box
RoomView(keys, heap) ==
    {[label |-> heap[keys[i]].label, data |-> heap[keys[i]].data, ui |-> heap[keys[i]].ui] :
        i \in 1..Len(keys)}

\* an end of an aperture as a room label, or as it stands when it is no registered room
EndLabel(aprooms, k, keys, heap) ==
    IF k > Len(aprooms) THEN "undefined"
    ELSE IF aprooms[k] \in Range(keys) THEN heap[aprooms[k]].label
    ELSE aprooms[k]

ApertureTriple(ap, keys, heap) ==
    [origin |-> EndLabel(ap.rooms, 1, keys, heap),
     destination |-> EndLabel(ap.rooms, 2, keys, heap),
     area |-> ap.area, ui |-> ap.ui]

\* the multiset of the apertures' triples, each with its UI position
ApertureView(aps, keys, heap) ==
    LET T == {ApertureTriple(aps[i], keys, heap) : i \in 1..Len(aps)}
    IN  [t \in T |-> Cardinality({i \in 1..Len(aps) : ApertureTriple(aps[i], keys, heap) = t})]

\* C4: for a graph whose room labels are pairwise distinct, save() followed by load()
\* of all the files save() produced gives the same set of room labels, each with the
\* same data payload and UI box, and the same multiset of aperture triples
\* {origin, destination, area}, each with the same UI position.
C4_SaveLoadRoundTrip ==
    [][(/\ FileInputChange(1..Len(downloads))
        /\ saved.ok
        /\ UniqueLabels(saved.rooms, saved.roomHeap))
       => (/\ RoomView(rooms', roomHeap') = RoomView(saved.rooms, saved.roomHeap)
           /\ ApertureView(apertures', rooms', roomHeap')
                = ApertureView(saved.apertures, saved.rooms, saved.roomHeap))
    ]_vars

\* no file of the set parses to a document with both a rooms and an apertures entry
NoMasterIn(files) ==
    \A i \in 1..Len(files) :
        LET json == SafeParseJSON(files[i].content, NoDoc)
        IN  ~("rooms" \in json.has /\ "apertures" \in json.has)

\* C7: load() of a file set in which no file parses to a document with both a rooms
\* and an apertures entry raises the notice "Master file not found." and leaves the
\* room registry, the aperture registry and the canvas as they were (no reset()).
C7_NoMasterLeavesState ==
    [][\A S \in SUBSET (1..Len(downloads)) :
         (FileInputChange(S) /\ NoMasterIn(Pick(downloads, S, 1)))
         => (/\ notice' = "Master file not found."
             /\ rooms' = rooms
             /\ roomHeap' = roomHeap
             /\ apertures' = apertures
             /\ canvas' = canvas)
    ]_vars

\* the notice was raised over a layout with rooms, one of them holding a text that
\* parses to a document with a rooms entry only, and the layout is still there
C7_Witness ==
    /\ notice = "Master file not found."
    /\ rooms # << >>
    /\ canvas # << >>
    /\ \E i \in 1..Len(downloads) :
          /\ "text" \in DOMAIN downloads[i].content
          /\ "rooms" \in SafeParseJSON(downloads[i].content, NoDoc).has

---------------------------------------------------------------------------
(* Claims about the renderer, under SpecRender *)

AllLines == connectionLayer \o highlightedConnectionLayer

\* the edges tagged with this aperture and this room
EdgesOf(apertureId, roomId) ==
    {e \in 1..Len(AllLines) :
        AllLines[e].apertureId = apertureId /\ AllLines[e].roomId = roomId}

\* exactly one edge per (aperture, registered room in its rooms list), and no other edge
EdgeSetExact ==
    /\ \A k \in 1..Len(apertures) :
          \A r \in Range(apertures[k].rooms) \cap Range(rooms) :
              Cardinality(EdgesOf(apertures[k].id, r)) = 1
    /\ \A e \in 1..Len(AllLines) :
          /\ AllLines[e].roomId \in Range(rooms)
          /\ \E k \in 1..Len(apertures) :
                /\ apertures[k].id = AllLines[e].apertureId
                /\ AllLines[e].roomId \in Range(apertures[k].rooms)

\* C5: right after update() (here: run by the creation of an aperture) there is exactly
\* one edge for each pair of an aperture and a registered room in its rooms list, tagged
\* with both ids, and no edge for a deleted room id or a side.
C5_EdgeSetAfterUpdate ==
    [][Len(apertures') > Len(apertures) => EdgeSetExact']_vars

\* C6: every line node the last update() created is in exactly one of the normal layer
\* and the highlight layer, whatever highlightFor and transportModeFor calls followed.
C6_LayersPartitionEdges ==
    \A n \in 1..liveLines :
        Cardinality({e \in 1..Len(AllLines) : AllLines[e].n = n}) = 1

\* hovering has moved an edge to the highlight layer while another stays in the normal one
C6_Witness ==
    /\ connectionLayer # << >>
    /\ highlightedConnectionLayer # << >>
    /\ \E e \in 1..Len(highlightedConnectionLayer) :
          highlightedConnectionLayer[e].classes \cap {"highlight", "transport"} # {}

---------------------------------------------------------------------------
(* Claims about dragging and the throttle, under SpecDrag *)

\* C9: once a gesture has ended and the throttle interval has passed since the last
\* throttled run, the rendered edges are those update() builds from the present
\* positions and sizes, the last mutation of the gesture included.
C9_FinalMutationRendered ==
    (/\ gestures > 0
     /\ NoGesture
     /\ now - last >= ThrottleDelay)
    => LET up == Update(apertures, rooms, canvas)
       IN  /\ connectionLayer = up.svg
           /\ highlightedConnectionLayer = up.highlightSvg

\* C10: two consecutive runs of update() through throttledRender are at least 16
\* time units apart, however many pointer moves come in between.
C10_ThrottleSpacing ==
    Len(renderTimes) = 2 => renderTimes[2] - renderTimes[1] >= ThrottleDelay

\* two throttled runs have happened
C10_Witness ==
    /\ Len(renderTimes) = 2
    /\ renderTimes[1] < renderTimes[2]

---------------------------------------------------------------------------
(* Claims about load of an arbitrary upload set, under SpecLoad *)

\* C11: every room createRoom() has made and registered, whatever label, data and ui
\* overrides it was given (a null or missing ui included), is registered under its id
\* and has ui.position and ui.size both defined.
C11_RoomUIDefined ==
    \A i \in 1..Len(rooms) :
        /\ rooms[i] \in DOMAIN roomHeap
        /\ roomHeap[rooms[i]].id = rooms[i]
        /\ HasBox(roomHeap[rooms[i]].ui)

---------------------------------------------------------------------------
(* Claims about the geometry of new apertures, under SpecLayout *)

C14_RoomsEntriesWellTyped ==
    \A k \in 1..Len(apertures) :
        LET ap == apertures[k]
        IN  Len(ap.rooms) > 0 =>
              IF ap.grounded
              THEN /\ ap.rooms[1] \in DOMAIN roomHeap
                   /\ Len(ap.rooms) >= 2
                   /\ ap.rooms[2] \in Sides
              ELSE \A j \in 1..Len(ap.rooms) : ap.rooms[j] \in DOMAIN roomHeap

---------------------------------------------------------------------------
(* Editing an aperture: rooms and apertures are built and linked, an aperture
   is selected and its text is edited *)

NextEdit ==
    \/ AddRoomClick
    \/ ~linkMode /\ AddApertureClick
    \/ \E i \in 1..Len(canvas) : RoomClick(i)
    \/ BannerClick("Left")
    \/ \E i \in 1..Len(canvas) : ApertureClick(i)
    \/ HasKey(apertures, selected) /\ \E txt \in AreaTexts : EditorInput(txt)

SpecEdit == Init /\ [][NextEdit]_vars

\* a text whose area is a positive number
ValidAreaText(txt) == txt = "{\"area\": 2}"

\* C16: an edit of the selected aperture whose text has a missing or invalid area
\* (unparseable, no area, non-positive) leaves the aperture's area as it was, and
\* after every step every aperture's area is a positive number.
C16_InvalidAreaRejected ==
    [][ /\ \A txt \in AreaTexts :
             HasKey(apertures, selected) /\ EditorInput(txt) /\ ~ValidAreaText(txt)
                 => apertures' = apertures
        /\ \A k \in 1..Len(apertures') : apertures'[k].area > 0 ]_vars

---------------------------------------------------------------------------
(* Claims about the aperture loop of load(), under SpecLoad *)

\* a registered room carries this label
Resolves(regs, heap, label) == \E i \in 1..Len(regs) : heap[regs[i]].label = label

IdOf(regs, heap, label) == CHOOSE id \in Range(regs) : heap[id].label = label

\* aps is what the descriptors call for, descriptor by descriptor and in their order:
\* an inter-room aperture when both ends resolve, a grounded one on the destination
\* when only the origin resolves, nothing when neither does, at most one otherwise
RECURSIVE DescriptorsMade(_, _, _, _)
DescriptorsMade(descs, aps, regs, heap) ==
    IF descs = << >> THEN aps = << >>
    ELSE LET d == Head(descs)
             a == Resolves(regs, heap, d.origin)
             b == Resolves(regs, heap, d.destination)
         IN  IF a /\ b
             THEN /\ aps # << >>
                  /\ ~aps[1].grounded
                  /\ aps[1].rooms = << IdOf(regs, heap, d.origin),
                                       IdOf(regs, heap, d.destination) >>
                  /\ DescriptorsMade(Tail(descs), Tail(aps), regs, heap)
             ELSE IF a
             THEN /\ aps # << >>
                  /\ aps[1].grounded
                  /\ aps[1].rooms = << IdOf(regs, heap, d.origin), d.destination >>
                  /\ DescriptorsMade(Tail(descs), Tail(aps), regs, heap)
             ELSE IF ~b
             THEN DescriptorsMade(Tail(descs), aps, regs, heap)
             ELSE \/ DescriptorsMade(Tail(descs), aps, regs, heap)
                  \/ aps # << >> /\ DescriptorsMade(Tail(descs), Tail(aps), regs, heap)

\* C18: load() makes, for each descriptor of the master, exactly one inter-room
\* aperture when origin and destination both resolve to rooms of this load, exactly
\* one grounded aperture on the destination when only the origin resolves, none when
\* neither resolves, and never more than one.
C18_DescriptorsResolved ==
    [][\A S \in (SUBSET (1..Len(downloads))) \ {{}} :
         LET files == Pick(downloads, S, 1)
         IN  (FileInputChange(S) /\ ~NoMasterIn(files))
             => DescriptorsMade(SafeParseJSON(files[FindMaster(files)].content, NoDoc).apertures,
                                apertures', rooms', roomHeap')
    ]_vars

---------------------------------------------------------------------------
(* Claims about the room loop of load(), under SpecLoad *)

\* no uploaded file carries this name
Missing(files, name) == \A i \in 1..Len(files) : files[i].name # name

\* C19: when a file the master's rooms map names is not among the uploaded ones,
\* load() still creates the room under its label, with the empty payload "{}", and
\* goes on: afterwards the registry holds exactly one room for each label of the map.
C19_MissingRoomFile ==
    [][\A S \in (SUBSET (1..Len(downloads))) \ {{}} :
         LET files == Pick(downloads, S, 1)
             entries == SafeParseJSON(files[FindMaster(files)].content, NoDoc).rooms
         IN  (/\ FileInputChange(S)
              /\ ~NoMasterIn(files)
              /\ \E e \in 1..Len(entries) : Missing(files, entries[e].value))
             => /\ Len(rooms') = Len(entries)
                /\ \A e \in 1..Len(entries) :
                      /\ Cardinality({i \in 1..Len(rooms') :
                             roomHeap'[rooms'[i]].label = entries[e].key}) = 1
                      /\ Missing(files, entries[e].value) =>
                             \A i \in 1..Len(rooms') :
                                roomHeap'[rooms'[i]].label = entries[e].key
                                    => roomHeap'[rooms'[i]].data = "{}"
    ]_vars

---------------------------------------------------------------------------
(* The interaction modes: the toolbar, the two file inputs, clicks on the canvas and
   on its rooms, and the keyboard, with one layout ready to be loaded before the
   second element is made *)

ModesMaster ==
    [has |-> {"rooms", "apertures"}, rooms |-> << UploadRoomEntry("Hall") >>,
     apertures |-> << >>, ui |-> [rooms |-> << >>, apertures |-> << >>]]

InitModes ==
    /\ nextId = 0
    /\ roomHeap = << >>
    /\ rooms = << >>
    /\ apertures = << >>
    /\ selected = NoId
    /\ linkMode = FALSE
    /\ linkSelection = << >>
    /\ linkingDOMElements = << >>
    /\ transportPathMode = FALSE
    /\ resultsViewMode = FALSE
    /\ canvas = << >>
    /\ connectionLayer = << >>
    /\ highlightedConnectionLayer = << >>
    /\ liveLines = 0
    /\ pendingPaths = 0
    /\ tiles = << >>
    /\ downloads = UploadSet(ModesMaster)
    /\ notice = ""
    /\ now = 0
    /\ last = 0
    /\ dragging = NoId
    /\ resizing = NoId
    /\ offsetX = 0
    /\ offsetY = 0
    /\ renderTimes = << >>
    /\ gestures = 0
    /\ listeners = << >>
    /\ loads = << >>
    /\ reachable = {"transport"}
    /\ validations = << >>
    /\ jsonError = [display |-> "none", innerHTML |-> ""]
    /\ resultsLoads = << >>
    /\ calls = 0
    /\ answered = 0
    /\ validTimes = "null"
    /\ rangeQueries = << >>
    /\ valueQueries = << >>
    /\ min = Null
    /\ max = Null
    /\ speciesInput = ""
    /\ timeSlider = 0
    /\ resultsView = "none"
    /\ saved = [ok |-> FALSE]

NextModes ==
    \/ AddRoomClick
    \/ AddApertureClick
    \/ \E i \in 1..Len(canvas) : RoomClick(i)
    \/ DeducePathsClick
    \/ \E path \in SUBSET ApertureIds : PathsResponse(path)
    \/ ResultsFileInputChange
    \/ nextId < 2 /\ FileInputChange(1..Len(downloads))
    \/ CanvasClick
    \/ EscapeKey

SpecModes == InitModes /\ [][NextModes]_vars

\* C20: at most one of linkMode, transportPathMode and resultsViewMode is true in
\* every state the handlers of main.js reach.
C20_ModesExclusive ==
    /\ ~(linkMode /\ transportPathMode)
    /\ ~(linkMode /\ resultsViewMode)
    /\ ~(transportPathMode /\ resultsViewMode)

---------------------------------------------------------------------------
(* Pointer presses, moves and releases in any order: a second button may be pressed
   while a gesture is in progress *)

NextPress ==
    \/ AddRoomClick
    \/ ~linkMode /\ AddApertureClick
    \/ \E i \in 1..Len(canvas) : RoomClick(i)
    \/ \E i \in 1..Len(canvas), p \in Pointers, onHandle \in BOOLEAN : MouseDown(i, p, onHandle)
    \/ \E p \in Pointers : MouseMove(p)
    \/ MouseUp

SpecPress == Init /\ [][NextPress]_vars

\* C26: whatever the sequence of pointer presses, moves and releases, at most one of
\* dragging and resizing is set, and both are null after a release.
C26_OneGestureAtATime ==
    [][/\ dragging' = NoId \/ resizing' = NoId
       /\ MouseUp => dragging' = NoId /\ resizing' = NoId
    ]_vars

\* the ui.position of every registered room and of every aperture
PositionsOf(heap, regs, aps) ==
    << [i \in 1..Len(regs) |-> heap[regs[i]].ui.position],
       [k \in 1..Len(aps) |-> aps[k].ui.position] >>

---------------------------------------------------------------------------
(* Moving elements about, those of removed rooms included: the layout is built and
   rooms are taken away before the first gesture, and one gesture is made at a time *)

NextMove ==
    \/ gestures = 0 /\ AddRoomClick
    \/ gestures = 0 /\ ~linkMode /\ AddApertureClick
    \/ gestures = 0 /\ \E i \in 1..Len(canvas) : RoomClick(i)
    \/ gestures = 0 /\ ~linkMode /\ \E id \in Range(rooms) : RemoveRoom(id)
    \/ NoGesture /\ \E i \in 1..Len(canvas), p \in Pointers, onHandle \in BOOLEAN : MouseDown(i, p, onHandle)
    \/ \E p \in Pointers : MouseMove(p)
    \/ MouseUp

SpecMove == Init /\ [][NextMove]_vars

\* left and top of the element with this data-id
VisualPosition(cv, id) == [left |-> cv[FindEl(cv, id)].left, top |-> cv[FindEl(cv, id)].top]

\* C24: after a drag-move on the element of a registered room or aperture, the
\* element's left and top are that entity's ui.position; a drag-move on an element
\* whose data-id is neither changes no room and no aperture.
C24_DragKeepsModelAligned ==
    [][\A p \in Pointers :
         (MouseMove(p) /\ dragging # NoId) =>
            /\ dragging \in Range(rooms) =>
                  roomHeap'[dragging].ui.position = VisualPosition(canvas', dragging)
            /\ \A k \in 1..Len(apertures) :
                  apertures[k].key = dragging =>
                     apertures'[k].ui.position = VisualPosition(canvas', dragging)
            /\ (/\ dragging \notin Range(rooms)
                /\ ~HasKey(apertures, dragging)
                /\ resizing = NoId)
               => roomHeap' = roomHeap /\ apertures' = apertures
    ]_vars

\* an aperture is being dragged: it has left the place it was created at, and its
\* element sits at its ui.position
C24_Witness ==
    /\ gestures = 1
    /\ \E k \in 1..Len(apertures) :
          LET ap == apertures[k]
          IN  /\ ap.key = dragging
              /\ ~ap.grounded /\ Len(ap.rooms) = 2
              /\ ap.ui.position = VisualPosition(canvas, dragging)
              /\ ap.ui.position # CreateApertureBetween(ap.id, roomHeap[ap.rooms[1]],
                                       roomHeap[ap.rooms[2]], ap.area).ui.position

\* width and height of the element with this data-id
VisualSize(cv, id) ==
    [width |-> cv[FindEl(cv, id)].width, height |-> cv[FindEl(cv, id)].height]

\* C25: a resize-move writes a width and a height of at least 40 into the element and,
\* when its data-id names a room, the same values into the room's ui.size; it changes
\* no aperture and no ui.position.
C25_ResizeClamped ==
    [][\A p \in Pointers :
         (MouseMove(p) /\ resizing # NoId /\ dragging = NoId) =>
            /\ VisualSize(canvas', resizing).width >= Px(40)
            /\ VisualSize(canvas', resizing).height >= Px(40)
            /\ resizing \in Range(rooms) =>
                  roomHeap'[resizing].ui.size = VisualSize(canvas', resizing)
            /\ apertures' = apertures
            /\ PositionsOf(roomHeap', rooms', apertures')
                  = PositionsOf(roomHeap, rooms, apertures)
    ]_vars

\* a room is being resized with the pointer close to its corner: element and room
\* have the least size
C25_Witness ==
    /\ resizing \in Range(rooms)
    /\ roomHeap[resizing].ui.size = [width |-> Px(40), height |-> Px(40)]
    /\ VisualSize(canvas, resizing) = roomHeap[resizing].ui.size

---------------------------------------------------------------------------
(* Claims about what load() leaves of the graph it found, under SpecIO *)

\* C27: after a load() that found a master and ran to its end, no room and no
\* aperture of the graph before is registered: every registered room and aperture has
\* an identifier that was not in use before, and the labels of the rooms are exactly
\* the keys of the master's rooms map.
C27_LoadReplacesGraph ==
    [][\A S \in (SUBSET (1..Len(downloads))) \ {{}} :
         LET files == Pick(downloads, S, 1)
             master == SafeParseJSON(files[FindMaster(files)].content, NoDoc)
         IN  (/\ FileInputChange(S)
              /\ ~NoMasterIn(files)
              /\ ~Load(master, files).threw)
             => /\ \A i \in 1..Len(rooms') : rooms'[i] \notin DOMAIN roomHeap
                /\ \A k \in 1..Len(apertures') :
                      /\ apertures'[k].id \notin DOMAIN roomHeap
                      /\ \A j \in 1..Len(apertures) : apertures[j].id # apertures'[k].id
                /\ Len(rooms') = Len(master.rooms)
                /\ {roomHeap'[rooms'[i]].label : i \in 1..Len(rooms')}
                      = {master.rooms[e].key : e \in 1..Len(master.rooms)}
    ]_vars

---------------------------------------------------------------------------
(* Overlapping loads: two layouts can be picked, the calls of load() proceed from
   await to await, and rooms are added in between *)

OverlapA ==
    [has |-> {"rooms", "apertures"}, rooms |-> << UploadRoomEntry("Hall") >>,
     apertures |-> << [origin |-> "Hall", destination |-> "Left", area |-> 1] >>,
     ui |-> [rooms |-> << >>, apertures |-> << >>]]

OverlapB ==
    [has |-> {"rooms", "apertures"}, rooms |-> << UploadRoomEntry("Den") >>,
     apertures |-> << >>, ui |-> [rooms |-> << >>, apertures |-> << >>]]

InitOverlap ==
    /\ nextId = 0
    /\ roomHeap = << >>
    /\ rooms = << >>
    /\ apertures = << >>
    /\ selected = NoId
    /\ linkMode = FALSE
    /\ linkSelection = << >>
    /\ linkingDOMElements = << >>
    /\ transportPathMode = FALSE
    /\ resultsViewMode = FALSE
    /\ canvas = << >>
    /\ connectionLayer = << >>
    /\ highlightedConnectionLayer = << >>
    /\ liveLines = 0
    /\ pendingPaths = 0
    /\ tiles = << >>
    /\ downloads = UploadSet(OverlapA) \o UploadSet(OverlapB)
    /\ notice = ""
    /\ now = 0
    /\ last = 0
    /\ dragging = NoId
    /\ resizing = NoId
    /\ offsetX = 0
    /\ offsetY = 0
    /\ renderTimes = << >>
    /\ gestures = 0
    /\ listeners = << >>
    /\ loads = << >>
    /\ reachable = {"transport"}
    /\ validations = << >>
    /\ jsonError = [display |-> "none", innerHTML |-> ""]
    /\ resultsLoads = << >>
    /\ calls = 0
    /\ answered = 0
    /\ validTimes = "null"
    /\ rangeQueries = << >>
    /\ valueQueries = << >>
    /\ min = Null
    /\ max = Null
    /\ speciesInput = ""
    /\ timeSlider = 0
    /\ resultsView = "none"
    /\ saved = [ok |-> FALSE]

NextOverlap ==
    \/ AddRoomClick
    \/ \E S \in {{1, 2}, {3, 4}} : LoadCall(S)
    \/ \E n \in 1..Len(loads) : LoadFindMasterDone(n)
    \/ \E n \in 1..Len(loads) : LoadRoomTextDone(n)

SpecOverlap == InitOverlap /\ [][NextOverlap]_vars

\* what whole operations in some order leave: the rooms of the master loaded last, in
\* the order of its rooms map, then the rooms added since, and its apertures
SerialOutcome(master) ==
    /\ Len(rooms) >= Len(master.rooms)
    /\ \A e \in 1..Len(rooms) :
          roomHeap[rooms[e]].label = IF e <= Len(master.rooms) THEN master.rooms[e].key
                                     ELSE "Room " \o ToString(e - 1)
    /\ DescriptorsMade(master.apertures, apertures, rooms, roomHeap)

NothingLoaded ==
    [has |-> {"rooms", "apertures"}, rooms |-> << >>, apertures |-> << >>,
     ui |-> [rooms |-> << >>, apertures |-> << >>]]

\* C28: load() changes the graph atomically with respect to the other handlers: once
\* no load is in flight, the graph is what the loads and the other handlers run one
\* after the other, in some order, would have left; after overlapping loads the
\* registries hold the entities of one master only.
C28_LoadAtomic ==
    loads = << >> =>
        \E master \in {NothingLoaded, OverlapA, OverlapB} : SerialOutcome(master)

---------------------------------------------------------------------------
(* External services: the answers of the validator and of the results service *)

Infinity == 1000

\* the gradient select is left on "Blue-Red": getGradientColors(name)
GetGradientColors == << "#0000ff", "#ff0000" >>

HexToRgb(hex) ==
    IF hex = "#0000ff" THEN [r |-> 0, g |-> 0, b |-> 255] ELSE [r |-> 255, g |-> 0, b |-> 0]

\* Math.round(num / den) for num >= 0 and den > 0
MathRound(num, den) == (2 * num + den) \div (2 * den)

\* interpolateColor(c1, c2, t) with t = fn / fd, as the style reads back
InterpolateColor(c1, c2, fn, fd) ==
    LET a == HexToRgb(c1)
        b == HexToRgb(c2)
    IN  "rgb(" \o ToString(MathRound(a.r * fd + (b.r - a.r) * fn, fd)) \o ", "
               \o ToString(MathRound(a.g * fd + (b.g - a.g) * fn, fd)) \o ", "
               \o ToString(MathRound(a.b * fd + (b.b - a.b) * fn, fd)) \o ")"

\* getColorFromGradient(colors, value, min, max)
GetColorFromGradient(colors, value, lo, hi) ==
    IF lo = hi THEN colors[(Len(colors) \div 2) + 1]
    ELSE LET n == Len(colors) - 1
             den == hi - lo
             num == IF value <= lo THEN 0 ELSE IF value >= hi THEN den ELSE value - lo
             i == (num * n) \div den
         IN  IF i >= n THEN colors[n + 1]
             ELSE InterpolateColor(colors[i + 1], colors[i + 2], num * n - i * den, den)

\* ResultsViewManager.updateNodeColors() up to its await
UpdateNodeColors(queue, call) ==
    Append(queue, [call |-> call, species |-> speciesInput, time |-> timeSlider,
                   colors |-> GetGradientColors])

\* what the services may answer: the results name no room or the first one
KnownRooms == {{}, {"Room 0"}}

ValidationAnswers ==
    {[success |-> TRUE, message |-> ""], [success |-> FALSE, message |-> "not JSON"]}

RangeAnswers == {[known |-> k, low |-> 1, high |-> 3] : k \in KnownRooms}

ValueAnswers == {[known |-> k, value |-> v] : k \in KnownRooms, v \in {1, 2}}

Species == {"O3"}

TimeIndices == {0, 1}

\* faulty variant: the text the validator was sent is written back to the selected room
ValidatedRoomsStored(heap, request) ==
    [id \in DOMAIN heap |-> IF id = selected
                            THEN [heap[id] EXCEPT !.data = request.txt \o " "]
                            ELSE heap[id]]

\* check_room() after its await: the answer is shown and nothing of it is stored
ValidatedRooms(heap, request) == heap

\* faulty variant: an answer is shown only if no later check is waiting
ShownIfNewest(n, res) ==
    IF n < Len(validations) THEN jsonError
    ELSE IF ~res.success
    THEN [display |-> "block", innerHTML |-> res.message]
    ELSE [jsonError EXCEPT !.display = "none"]

\* check_room() after its await: the error display
Shown(n, res) ==
    IF ~res.success
    THEN [display |-> "block", innerHTML |-> res.message]
    ELSE [jsonError EXCEPT !.display = "none"]

\* the validator answers the n-th waiting check_room()
ValidationResponse(n, res) ==
    /\ validations' = RemoveAt(validations, n)
    /\ answered' = validations[n].call
    /\ jsonError' = Shown(n, res)
    /\ roomHeap' = ValidatedRooms(roomHeap, validations[n])
    /\ UNCHANGED << nextId, rooms, apertures, selected, linkVars, modeVars, canvas,
                    layerVars, ioVars, reachable, calls, viewVars, resultsView, dragVars, timeVars >>

\* the results service answers a load: the then() of ResultsViewManager.start(file)
ResultsLoadResponse(n) ==
    /\ calls < MaxRequests
    /\ resultsLoads' = RemoveAt(resultsLoads, n)
    /\ answered' = resultsLoads[n].call
    /\ validTimes' = "loaded"
    /\ timeSlider' = 0
    /\ resultsView' = "flex"
    /\ calls' = calls + 1
    /\ valueQueries' = Append(valueQueries,
                              [call |-> calls + 1, species |-> speciesInput, time |-> 0,
                               colors |-> GetGradientColors])
    /\ UNCHANGED << graphVars, selected, linkVars, modeVars, canvas, layerVars, ioVars,
                    reachable, editVars, rangeQueries, min, max, speciesInput,
                    dragVars, timeVars >>

\* change event of the species input: select_species() with the text typed
SelectSpecies(s) ==
    /\ NoGesture
    /\ validTimes # "null"
    /\ "results" \in reachable
    /\ calls + 2 <= MaxRequests
    /\ speciesInput' = s
    /\ calls' = calls + 2
    /\ rangeQueries' = Append(rangeQueries, [call |-> calls + 1, species |-> s])
    /\ valueQueries' = Append(valueQueries,
                              [call |-> calls + 2, species |-> s, time |-> timeSlider,
                               colors |-> GetGradientColors])
    /\ UNCHANGED << graphVars, selected, linkVars, modeVars, canvas, layerVars, ioVars,
                    netVars, editVars, resultsLoads, validTimes, min, max, timeSlider,
                    resultsView, dragVars, timeVars >>

\* input event of the time slider: select_time() with the index chosen
SelectTime(t) ==
    /\ NoGesture
    /\ validTimes # "null"
    /\ "results" \in reachable
    /\ calls < MaxRequests
    /\ timeSlider' = t
    /\ calls' = calls + 1
    /\ valueQueries' = Append(valueQueries,
                              [call |-> calls + 1, species |-> speciesInput, time |-> t,
                               colors |-> GetGradientColors])
    /\ UNCHANGED << graphVars, selected, linkVars, modeVars, canvas, layerVars, ioVars,
                    netVars, editVars, resultsLoads, validTimes, rangeQueries, min, max,
                    speciesInput, resultsView, dragVars, timeVars >>

\* the labels of the registered rooms
LabelsOf(regs, heap) == {heap[regs[k]].label : k \in 1..Len(regs)}

\* the results service answers the n-th waiting update_min_max()
RangeResponse(n, ranges) ==
    /\ rangeQueries' = RemoveAt(rangeQueries, n)
    /\ answered' = rangeQueries[n].call
    /\ LET any == LabelsOf(rooms, roomHeap) \cap ranges.known # {}
           lo == IF any /\ ranges.low < Infinity THEN ranges.low ELSE Infinity
           hi == IF any /\ ranges.high > 0 THEN ranges.high ELSE 0
       IN  /\ min' = lo
           /\ max' = IF lo > hi THEN lo ELSE hi
    /\ UNCHANGED << graphVars, selected, linkVars, modeVars, canvas, layerVars, ioVars,
                    reachable, calls, editVars, resultsLoads, validTimes, valueQueries,
                    speciesInput, timeSlider, resultsView, dragVars, timeVars >>

\* the colour updateNodeColors() gives the room element of data-id id
NodeColor(id, request, values) ==
    IF id \notin Range(rooms) THEN "#808080"
    ELSE IF roomHeap[id].label \notin values.known THEN "#808080"
    ELSE GetColorFromGradient(request.colors, values.value, min, max)

\* the results service answers the n-th waiting updateNodeColors()
ValuesResponse(n, values) ==
    /\ valueQueries' = RemoveAt(valueQueries, n)
    /\ answered' = valueQueries[n].call
    /\ canvas' = [i \in 1..Len(canvas) |->
                     IF canvas[i].kind = "room"
                     THEN [canvas[i] EXCEPT !.backgroundColor =
                                                NodeColor(canvas[i].id, valueQueries[n], values)]
                     ELSE canvas[i]]
    /\ UNCHANGED << graphVars, selected, linkVars, modeVars, layerVars, ioVars,
                    reachable, calls, editVars, resultsLoads, validTimes, rangeQueries,
                    min, max, speciesInput, timeSlider, resultsView, dragVars, timeVars >>

---------------------------------------------------------------------------
(* The editor with its services: requests are sent by the handlers and answered
   in any order, between any two handlers *)

InitServices ==
    /\ nextId = 0
    /\ roomHeap = << >>
    /\ rooms = << >>
    /\ apertures = << >>
    /\ selected = NoId
    /\ linkMode = FALSE
    /\ linkSelection = << >>
    /\ linkingDOMElements = << >>
    /\ transportPathMode = FALSE
    /\ resultsViewMode = FALSE
    /\ canvas = << >>
    /\ connectionLayer = << >>
    /\ highlightedConnectionLayer = << >>
    /\ liveLines = 0
    /\ pendingPaths = 0
    /\ tiles = << >>
    /\ downloads = << >>
    /\ notice = ""
    /\ now = 0
    /\ last = 0
    /\ dragging = NoId
    /\ resizing = NoId
    /\ offsetX = 0
    /\ offsetY = 0
    /\ renderTimes = << >>
    /\ gestures = 0
    /\ listeners = << >>
    /\ loads = << >>
    /\ reachable = {"transport", "jsonvalidators", "results"}
    /\ validations = << >>
    /\ jsonError = [display |-> "none", innerHTML |-> ""]
    /\ resultsLoads = << >>
    /\ calls = 0
    /\ answered = 0
    /\ validTimes = "null"
    /\ rangeQueries = << >>
    /\ valueQueries = << >>
    /\ min = Null
    /\ max = Null
    /\ speciesInput = ""
    /\ timeSlider = 0
    /\ resultsView = "none"
    /\ saved = [ok |-> FALSE]

NextServices ==
    \/ nextId < 1 /\ calls = 0 /\ AddRoomClick
    \/ nextId < 2 /\ calls = 0 /\ AddApertureClick
    \/ calls = 1 /\ BannerClick("Front")
    \/ \E i \in 1..Len(canvas) : RoomClick(i)
    \/ \E txt \in {"{}"} : EditorInput(txt)
    \/ \E id \in Range(rooms) : RemoveRoom(id)
    \/ calls = 0 /\ DeducePathsClick
    \/ ResultsFileInputChange
    \/ \E s \in Species : SelectSpecies(s)
    \/ \E t \in TimeIndices : SelectTime(t)
    \/ \E path \in SUBSET ApertureIds : PathsResponse(path)
    \/ \E n \in 1..Len(validations), res \in ValidationAnswers : ValidationResponse(n, res)
    \/ \E n \in 1..Len(resultsLoads) : ResultsLoadResponse(n)
    \/ \E n \in 1..Len(rangeQueries), ranges \in RangeAnswers : RangeResponse(n, ranges)
    \/ \E n \in 1..Len(valueQueries), values \in ValueAnswers : ValuesResponse(n, values)

SpecServices == InitServices /\ [][NextServices]_vars

\* a step in which a service's answer is consumed
ServiceAnswer ==
    \/ \E path \in SUBSET ApertureIds : PathsResponse(path)
    \/ \E n \in 1..Len(validations), res \in ValidationAnswers : ValidationResponse(n, res)
    \/ \E n \in 1..Len(resultsLoads) : ResultsLoadResponse(n)
    \/ \E n \in 1..Len(rangeQueries), ranges \in RangeAnswers : RangeResponse(n, ranges)
    \/ \E n \in 1..Len(valueQueries), values \in ValueAnswers : ValuesResponse(n, values)

\* C29: the answer of an external service (path deduction, room validation, results
\* load, results range, results values), whenever it comes between two handlers and
\* in whatever order, leaves the room registry, the aperture registry and every
\* field of every Room and Aperture as they were.
C29_AnswersLeaveGraph ==
    [][ServiceAnswer => UNCHANGED << rooms, roomHeap, apertures >>]_vars

\* answers have been consumed with a room and an aperture in the graph: a validation
\* failed and the room was coloured by a values answer
C29_Witness ==
    /\ answered > 0
    /\ rooms # << >>
    /\ apertures # << >>
    /\ jsonError.display = "block"
    /\ \E i \in 1..Len(canvas) :
          canvas[i].kind = "room" /\ canvas[i].backgroundColor \notin {"", "#808080"}

---------------------------------------------------------------------------
(* The services answer every request they were sent *)

\* the validator or the results service answers call k
AnswerTo(k) ==
    \/ \E n \in 1..Len(validations), res \in ValidationAnswers :
          validations[n].call = k /\ ValidationResponse(n, res)
    \/ \E n \in 1..Len(valueQueries), values \in ValueAnswers :
          valueQueries[n].call = k /\ ValuesResponse(n, values)

\* the handlers that send room validations and values queries, and the answers
NextAnswered ==
    \/ nextId < 1 /\ calls = 0 /\ AddRoomClick
    \/ \E i \in 1..Len(canvas) : RoomClick(i)
    \/ \E txt \in {"{}"} : EditorInput(txt)
    \/ ResultsFileInputChange
    \/ \E t \in TimeIndices : SelectTime(t)
    \/ \E n \in 1..Len(validations), res \in ValidationAnswers : ValidationResponse(n, res)
    \/ \E n \in 1..Len(resultsLoads) : ResultsLoadResponse(n)
    \/ \E n \in 1..Len(valueQueries), values \in ValueAnswers : ValuesResponse(n, values)

SpecAnswered ==
    InitServices /\ [][NextAnswered]_vars /\ \A k \in 1..MaxRequests : WF_vars(AnswerTo(k))

\* call k is among the requests of a queue
WaitingIn(k, queue) == \E n \in 1..Len(queue) : queue[n].call = k

\* call k is a room validation or a values query that waits for its answer
Waiting(k) == WaitingIn(k, validations) \/ WaitingIn(k, valueQueries)

\* a waiting request leaves its queue only by being answered
NoneDropped ==
    /\ \A n \in 1..Len(validations) :
          WaitingIn(validations[n].call, validations') \/ answered' = validations[n].call
    /\ \A n \in 1..Len(valueQueries) :
          WaitingIn(valueQueries[n].call, valueQueries') \/ answered' = valueQueries[n].call

\* the error display and the room colours after an answer are what that answer
\* alone says, whichever place its request had among the waiting ones
LastAnswerShown ==
    /\ \A n \in 1..Len(validations), res \in ValidationAnswers :
          ValidationResponse(n, res) =>
              /\ jsonError'.display = IF res.success THEN "none" ELSE "block"
              /\ ~res.success => jsonError'.innerHTML = res.message
    /\ \A n \in 1..Len(valueQueries), values \in ValueAnswers :
          ValuesResponse(n, values) =>
              \A i \in 1..Len(canvas) :
                  canvas[i].kind = "room" =>
                      canvas'[i].backgroundColor =
                          IF canvas[i].id \in Range(rooms)
                             /\ roomHeap[canvas[i].id].label \in values.known
                          THEN GetColorFromGradient(GetGradientColors, values.value, min, max)
                          ELSE "#808080"

\* C30: of two room validations, or two values queries, that wait at the same time,
\* none is dropped or cancelled: each is answered in the end and each answer is
\* applied, so that the error display and the room colours are those of the answer
\* that came last, whatever the order in which the requests were sent.
C30_LastAnswerWins ==
    /\ [][NoneDropped /\ LastAnswerShown]_vars
    /\ \A k \in 1..MaxRequests : Waiting(k) ~> ~Waiting(k)

\* two validations were sent and nothing else; the second was answered first and the
\* first, answered last, failed: its message is what the editor shows
C30_Witness ==
    /\ validTimes = "null"
    /\ resultsLoads = << >>
    /\ calls = 2
    /\ validations = << >>
    /\ answered = 1
    /\ jsonError = [display |-> "block", innerHTML |-> "not JSON"]

---------------------------------------------------------------------------
(* The managers called directly *)

\* data handed to createAperture(data): without an id, and with an id of the caller's
ApertureData ==
    {[id |-> i, area |-> DefaultArea, rooms |-> << >>, ui |-> NoUI, grounded |-> FALSE] :
        i \in {Undefined, "door"}}

\* overrides handed to createRoom(initialData)
RoomOverrides ==
    {[label |-> l, data |-> "", ui |-> u] :
        l \in {"", "Hall"},
        u \in {NoUI, [position |-> [left |-> 0, top |-> 0],
                      size |-> [width |-> Px(40), height |-> Px(40)]]}}

\* the Aperture that createAperture(data) constructs; id is the identifier it generated
CreateAperture(id, data) ==
    Aperture(data.id, data.area, data.rooms, data.ui, data.grounded)

\* roomManager.createRoom(initialData)
RoomManagerCreateRoom(initialData) ==
    /\ nextId < MaxId
    /\ Len(rooms) < MaxRooms
    /\ LET id == GenerateId(nextId + 1)
       IN  /\ nextId' = nextId + 1
           /\ roomHeap' = roomHeap @@ (id :> CreateRoom(id, initialData, rooms))
           /\ rooms' = Append(rooms, id)
    /\ UNCHANGED << apertures, selected, linkVars, modeVars, canvas, layerVars, ioVars,
                    svcVars, dragVars, timeVars >>

\* apertureManager.createAperture(data)
ApertureManagerCreateAperture(data) ==
    /\ nextId < MaxId
    /\ Len(apertures) < MaxApertures
    /\ LET id == GenerateId(nextId + 1)
       IN  /\ nextId' = nextId + 1
           /\ apertures' = SetAperture(apertures, id, CreateAperture(id, data))
    /\ UNCHANGED << roomHeap, rooms, selected, linkVars, modeVars, canvas, layerVars, ioVars,
                    svcVars, dragVars, timeVars >>

\* apertureManager.createApertureBetween(roomA, roomB)
ApertureManagerCreateApertureBetween(a, b) ==
    /\ nextId < MaxId
    /\ Len(apertures) < MaxApertures
    /\ LET id == GenerateId(nextId + 1)
       IN  /\ nextId' = nextId + 1
           /\ apertures' = SetAperture(apertures, id,
                               CreateApertureBetween(id, roomHeap[a], roomHeap[b], DefaultArea))
    /\ UNCHANGED << roomHeap, rooms, selected, linkVars, modeVars, canvas, layerVars, ioVars,
                    svcVars, dragVars, timeVars >>

\* apertureManager.createGroundedAperture(roomA, side)
ApertureManagerCreateGroundedAperture(a, side) ==
    /\ nextId < MaxId
    /\ Len(apertures) < MaxApertures
    /\ LET id == GenerateId(nextId + 1)
       IN  /\ nextId' = nextId + 1
           /\ apertures' = SetAperture(apertures, id,
                               CreateGroundedAperture(id, roomHeap[a], side, DefaultArea))
    /\ UNCHANGED << roomHeap, rooms, selected, linkVars, modeVars, canvas, layerVars, ioVars,
                    svcVars, dragVars, timeVars >>

NextManagers ==
    \/ \E initialData \in RoomOverrides : RoomManagerCreateRoom(initialData)
    \/ \E data \in ApertureData : ApertureManagerCreateAperture(data)
    \/ \E a \in Range(rooms), b \in Range(rooms) : ApertureManagerCreateApertureBetween(a, b)
    \/ \E a \in Range(rooms), side \in {"Front", "Left"} :
          ApertureManagerCreateGroundedAperture(a, side)
    \/ \E id \in Range(rooms) : RemoveRoom(id)
    \/ \E id \in {apertures[i].key : i \in 1..Len(apertures)} : RemoveAperture(id)

SpecManagers == Init /\ [][NextManagers]_vars

\* every registered entity is stored under its own id
KeysAreIds ==
    /\ \A i \in 1..Len(rooms) : roomHeap[rooms[i]].id = rooms[i]
    /\ \A k \in 1..Len(apertures) : apertures[k].id = apertures[k].key

\* a step changes the id of no entity that stays registered
IdsKept ==
    /\ \A id \in DOMAIN roomHeap : roomHeap'[id].id = roomHeap[id].id
    /\ \A k \in 1..Len(apertures), j \in 1..Len(apertures') :
          apertures'[j].key = apertures[k].key => apertures'[j].id = apertures[k].id

\* C31: in every reachable state each room and each aperture of the registries is stored
\* under a key equal to its own id (so removeRoom(room.id) and removeAperture(ap.id)
\* remove that entity), and no step changes the id of an entity.
C31_IdentityAtomic == []KeysAreIds /\ [][IdsKept]_vars

\* C32: createRoom(overrides) registers exactly one more room, leaves the rooms already
\* registered and all apertures as they were, labels the room "Room <n>" with n the
\* number of rooms registered before the call when no label is given, and gives it the
\* box at (50,50) of size (120,90) when no ui is given.
C32_CreateRoomAddsOne ==
    [][\A initialData \in RoomOverrides :
         RoomManagerCreateRoom(initialData)
         => LET new == rooms'[Len(rooms')]
            IN  /\ Len(rooms') = Len(rooms) + 1
                /\ SubSeq(rooms', 1, Len(rooms)) = rooms
                /\ new \notin Range(rooms)
                /\ \A id \in Range(rooms) : roomHeap'[id] = roomHeap[id]
                /\ apertures' = apertures
                /\ initialData.label = ""
                   => roomHeap'[new].label
                        = (IF Len(rooms) = 0 THEN "Room 0"
                           ELSE IF Len(rooms) = 1 THEN "Room 1"
                           ELSE IF Len(rooms) = 2 THEN "Room 2"
                           ELSE "Room " \o ToString(Len(rooms)))
                /\ initialData.label # "" => roomHeap'[new].label = initialData.label
                /\ initialData.ui = NoUI
                   => /\ roomHeap'[new].ui.position = [left |-> Px(50), top |-> Px(50)]
                      /\ roomHeap'[new].ui.size = [width |-> Px(120), height |-> Px(90)]
    ]_vars

\* a second room was created with no override beside a first one and an aperture
C32_Witness ==
    /\ Len(rooms) = 2
    /\ apertures # << >>
    /\ roomHeap[rooms[1]].label = "Hall"
    /\ roomHeap[rooms[2]].label = "Room 1"
    /\ roomHeap[rooms[2]].ui = DefaultRoomUI

---------------------------------------------------------------------------
(* Selection *)

\* selecting: rooms and apertures are made and clicked, selections are cleared by the
\* toolbar, the canvas and Escape, and a layout is loaded over the one on screen
NextSelect ==
    \/ AddRoomClick
    \/ AddApertureClick
    \/ \E i \in 1..Len(canvas) : RoomClick(i)
    \/ BannerClick("Left")
    \/ \E i \in 1..Len(canvas) : ApertureClick(i)
    \/ CanvasClick
    \/ EscapeKey
    \/ nextId < 2 /\ FileInputChange(1..Len(downloads))

SpecSelect == InitModes /\ [][NextSelect]_vars

\* positions of the canvas elements that carry the selected marker
SelectedElements == {i \in 1..Len(canvas) : "selected" \in canvas[i].classes}

\* a handler whose last selection call is clearSelection()
ClearingHandler == AddRoomClick \/ AddApertureClick \/ CanvasClick \/ EscapeKey

\* C33: at most one element carries the selected marker, and it is the element that
\* State.selected refers to; after clearSelection() no element carries the marker and
\* State.selected is null.
C33_OneSelected ==
    /\ [](/\ Cardinality(SelectedElements) <= 1
          /\ \A i \in SelectedElements : canvas[i].id = selected)
    /\ [][ClearingHandler => selected' = NoId /\ SelectedElements' = {}]_vars

\* an aperture is selected after the two rooms it links were clicked, and carries the marker
C33_Witness ==
    /\ Len(canvas) = 3
    /\ \E i \in 1..Len(canvas) :
          /\ canvas[i].kind = "aperture"
          /\ selected = canvas[i].id
          /\ SelectedElements = {i}

\* a click that completes a link: linkRoom() or linkClickBanner() creates an aperture
LinkCreates ==
    /\ (\E i \in 1..Len(canvas) : RoomClick(i)) \/ (\E side \in Sides : BannerClick(side))
    /\ OneApertureAdded

\* C34: every room identifier in the rooms list of an aperture that link mode creates is,
\* when the aperture is created, the id of a room registered in Graph State (the
\* second entry of a grounded aperture is a side, not a room identifier).
C34_LinkedRoomsRegistered ==
    [][LinkCreates
       => \A k \in 1..Len(NewAperture.rooms) :
             NewAperture.rooms[k] \in Sides \/ NewAperture.rooms[k] \in Range(rooms')
    ]_vars

---------------------------------------------------------------------------
(* Results view mode and its pending load *)

\* viewing results: a room is on the canvas, a results file is picked, Escape leaves
\* the mode, and the results service answers
NextResults ==
    \/ nextId < 1 /\ calls = 0 /\ AddRoomClick
    \/ ResultsFileInputChange
    \/ EscapeKey
    \/ \E n \in 1..Len(resultsLoads) : ResultsLoadResponse(n)
    \/ \E n \in 1..Len(valueQueries), values \in ValueAnswers : ValuesResponse(n, values)

SpecResults == InitServices /\ [][NextResults]_vars

\* C36: outside results view mode the results panel is hidden and no room element is
\* coloured: a results-load answer that arrives after end() shows no panel and colours
\* no room.
C36_PanelOnlyInResultsMode ==
    ~resultsViewMode
    => /\ resultsView = "none"
       /\ \A i \in 1..Len(canvas) : canvas[i].kind = "room" => canvas[i].backgroundColor = ""

---------------------------------------------------------------------------
(* Transport path mode *)

\* viewing transport paths: one room and its apertures are made first, then the mode is
\* entered and left, the backend answers with the path through every aperture, and
\* apertures and path tiles are hovered
NextTransport ==
    \/ nextId < 1 /\ AddRoomClick
    \/ ~transportPathMode /\ pendingPaths = 0 /\ tiles = << >> /\ ~linkMode /\ AddApertureClick
    \/ ~transportPathMode /\ pendingPaths = 0 /\ tiles = << >>
       /\ \E i \in 1..Len(canvas) : RoomClick(i)
    \/ ~transportPathMode /\ pendingPaths = 0 /\ tiles = << >> /\ BannerClick("Left")
    \/ DeducePathsClick
    \/ PathsResponse(ApertureIds)
    \/ \E i \in 1..Len(tiles), mode \in BOOLEAN : TileHover(i, mode)
    \/ \E i \in 1..Len(canvas), mode \in BOOLEAN : ApertureHover(i, mode)
    \/ EscapeKey
    \/ CanvasClick

SpecTransport == Init /\ [][NextTransport]_vars

\* C35: with transportPathMode false the path list holds no tile, and with it true the
\* tiles shown and still to come are those of one response, the one to the latest
\* start() (a response carries one path here): an answer that arrives after end(), or
\* after end() and a new start(), adds no tile.
C35_TilesOfCurrentStart ==
    /\ ~transportPathMode => tiles = << >>
    /\ transportPathMode => Len(tiles) + pendingPaths <= 1

\* the lines of either layer that carry the marker c
Marked(layer, c) == {k \in 1..Len(layer) : c \in layer[k].classes}

\* C37: when end() has run, no connection line and no aperture element carries the
\* transport marker, and the highlight layer holds no line that transport highlighting
\* moved there.
C37_EndClearsTransport ==
    [][transportPathMode /\ ~transportPathMode'
       => /\ \A i \in 1..Len(canvas') : "transport" \notin canvas'[i].classes
          /\ Marked(connectionLayer', "transport") = {}
          /\ Marked(highlightedConnectionLayer', "transport") = {}
    ]_vars

\* a step in which createDomAperture() has run update()
UpdateRuns ==
    /\ (\E i \in 1..Len(canvas) : RoomClick(i)) \/ BannerClick("Left")
    /\ OneApertureAdded

\* C39: a line is in the highlight layer exactly when it carries the highlight or the
\* transport marker, whatever the order of highlightFor, transportModeFor and update();
\* update() leaves the highlight layer empty and no line marked.
C39_HighlightLayerIffMarked ==
    /\ [](/\ Marked(connectionLayer, "highlight") = {}
          /\ Marked(connectionLayer, "transport") = {}
          /\ \A k \in 1..Len(highlightedConnectionLayer) :
                highlightedConnectionLayer[k].classes \cap {"highlight", "transport"} # {})
    /\ [][UpdateRuns
          => /\ highlightedConnectionLayer' = << >>
             /\ Marked(connectionLayer', "highlight") = {}
             /\ Marked(connectionLayer', "transport") = {}]_vars

---------------------------------------------------------------------------
(* Link mode markers, under Spec *)

\* C38: the elements in State.linkingDOMElements are the elements of the rooms in
\* State.linkSelection, in the same order, and they are the only ones that carry the
\* linking marker; with an empty selection no element carries it.
C38_LinkingMarksSelection ==
    /\ linkingDOMElements = linkSelection
    /\ \A i \in 1..Len(canvas) :
          "linking" \in canvas[i].classes => canvas[i].id \in Range(linkSelection)

---------------------------------------------------------------------------
(* Default labels, under SpecManagers *)

\* the registered rooms that createRoom() labelled itself: no override it is given
\* here begins with "Room "
DefaultLabelled ==
    {id \in Range(rooms) : roomHeap[id].label \notin {l.label : l \in RoomOverrides}}

\* C40: no two registered rooms that were created without a label override have the
\* same label.
C40_DefaultLabelsDistinct ==
    \A a \in DefaultLabelled, b \in DefaultLabelled :
        a # b => roomHeap[a].label # roomHeap[b].label

====
